---- MODULE Spec2Model ----
(***************************************************************************)
(* A model of the lobby-and-arena game client (App, usePlayer, GameRoom,   *)
(* GameCanvas) running against the remote store.  One client ("me") is     *)
(* modelled in full; the other participants of a room appear as rows of    *)
(* the store that change under them.                                       *)
(*                                                                         *)
(* React specifics that the model keeps, because the code depends on them: *)
(*  - a function created during a render closes over that render's state   *)
(*    and props; an effect with dependency list [] or [roomId] keeps the   *)
(*    closures of the render it ran in (timerClosure, cleanupClosure);     *)
(*  - the game-loop effect re-runs when myPosition, collectibles,          *)
(*    roomPlayers or myScore change; until it re-runs, animation frames    *)
(*    run the previous closure (loopClosure);                              *)
(*  - an updater passed to a state setter runs either at the call (eager)  *)
(*    or at the next render (deferred); which one is not fixed by the      *)
(*    code, so it is a nondeterministic choice.                            *)
(***************************************************************************)
EXTENDS Integers, Sequences, FiniteSets, TLC

\* ---------------------------------------------------------------- bounds
MaxRooms == 2          \* rooms (hence sessions) the client can go through
MaxFrames == 1         \* game-loop runs after the mounting one, over a behaviour
MaxEndGames == 2       \* endGame invocations over a behaviour
StartTime == 1000      \* Date.now() when the behaviour starts
MaxElapsed == 60       \* how far Date.now() advances
MaxFailures == 1       \* writes of endGame the store refuses
MaxSimFrames == 2      \* game-loop runs in a behaviour of SpecSim
MaxSyncFrames == 3     \* game-loop runs in a behaviour of SpecSync
MaxKeyFrames == 1      \* game-loop runs in a behaviour of SpecKeys
MaxPendingLoads == 2   \* reads of loadRoomPlayers() under way at a time in SpecRoom
MaxUndelivered == 2    \* room notifications waiting when Start Game is clicked in SpecStart

\* ------------------------------------------------------- program constants
GameSeconds == 60      \* useState(60)
StartX == 400
StartY == 300
MinXY == 20
MaxX == 780
MaxY == 580
speed == 5
playerRadius == 20
itemRadius == 15
NumCollectibles == 20
TickGate == 16
PushGate == 50
CoinValue == 10
GemValue == 25
StarValue == 50
DefaultMaxPlayers == 8   \* game_rooms.max_players DEFAULT 8

NULL == <<>>
Some(v) == <<v>>
The(o) == o[1]

Me == "me"
Host == "p2"
Rooms == 1..MaxRooms

Max2(a, b) == IF a > b THEN a ELSE b
Min2(a, b) == IF a < b THEN a ELSE b

\* ------------------------------------------------------------ GameCanvas
\* pure parts of the simulation

\* handleKeyDown's list of mapped keys (e.key values)
MappedKeys == {"ArrowUp", "ArrowDown", "ArrowLeft", "ArrowRight", "w", "a", "s", "d"}

\* e.key.toLowerCase() on the key values the model feeds in
toLowerCase(k) ==
  CASE k = "ArrowUp" -> "arrowup"
    [] k = "ArrowDown" -> "arrowdown"
    [] k = "ArrowLeft" -> "arrowleft"
    [] k = "ArrowRight" -> "arrowright"
    [] k = "W" -> "w"
    [] k = "D" -> "d"
    [] OTHER -> k

\* keysPressed after a keydown of e.key = k
KeysAfterDown(keys, k) == IF k \in MappedKeys THEN keys \cup {toLowerCase(k)} ELSE keys

\* keysPressed after a keyup of e.key = k
KeysAfterUpSameCase(keys, k) == keys \ {k}
KeysAfterUp(keys, k) == keys \ {toLowerCase(k)}

\* Math.max(lo, Math.min(hi, v))
ClampUpperOnly(lo, hi, v) == Min2(hi, v)
Clamp(lo, hi, v) == Max2(lo, Min2(hi, v))

\* updateGame: the candidate position from the closure's position and the held keys
MovedXPerKey(pos, keys) ==
  LET l == speed * Cardinality({"arrowleft", "a"} \cap keys)
      r == speed * Cardinality({"arrowright", "d"} \cap keys)
  IN  Clamp(MinXY, MaxX, pos.x - l + r)
MovedX(pos, keys) ==
  LET l == IF "arrowleft" \in keys \/ "a" \in keys THEN speed ELSE 0
      r == IF "arrowright" \in keys \/ "d" \in keys THEN speed ELSE 0
  IN  Clamp(MinXY, MaxX, pos.x - l + r)

MovedYUnlessHorizontal(pos, keys) ==
  LET u == IF "arrowup" \in keys \/ "w" \in keys THEN speed ELSE 0
      d == IF "arrowdown" \in keys \/ "s" \in keys THEN speed ELSE 0
  IN  IF keys \cap {"arrowleft", "a", "arrowright", "d"} /= {} THEN pos.y
      ELSE Clamp(MinXY, MaxY, pos.y - u + d)
MovedY(pos, keys) ==
  LET u == IF "arrowup" \in keys \/ "w" \in keys THEN speed ELSE 0
      d == IF "arrowdown" \in keys \/ "s" \in keys THEN speed ELSE 0
  IN  Clamp(MinXY, MaxY, pos.y - u + d)

NewPosition(pos, keys) == [x |-> MovedX(pos, keys), y |-> MovedY(pos, keys)]

\* checkCollisions: Math.sqrt(dx*dx + dy*dy) < playerRadius + 15, on integer
\* coordinates (sqrt is monotone and sqrt(35*35) = 35 exactly)
InRangeInclusive(item, x, y) ==
  LET dx == item.x - x
      dy == item.y - y
      reach == playerRadius + itemRadius
  IN  dx * dx + dy * dy <= reach * reach
InRange(item, x, y) ==
  LET dx == item.x - x
      dy == item.y - y
      reach == playerRadius + itemRadius
  IN  dx * dx + dy * dy < reach * reach

\* the updater of checkCollisions applied to prev
CollectAtRespawn(prev, x, y) ==
  [i \in DOMAIN prev |-> [prev[i] EXCEPT !.collected = InRange(prev[i], x, y)]]
CollectAt(prev, x, y) ==
  [i \in DOMAIN prev |->
     IF prev[i].collected THEN prev[i]
     ELSE IF InRange(prev[i], x, y) THEN [prev[i] EXCEPT !.collected = TRUE]
     ELSE prev[i]]

RECURSIVE SumValues(_, _)
SumValues(items, S) ==
  IF S = {} THEN 0
  ELSE LET i == CHOOSE j \in S : TRUE IN items[i].value + SumValues(items, S \ {i})

\* what the updater adds to newScore: the values of the items it collects
GainedAgain(prev, x, y) ==
  SumValues(prev, {i \in DOMAIN prev : InRange(prev[i], x, y)})
Gained(prev, x, y) ==
  SumValues(prev, {i \in DOMAIN prev : ~prev[i].collected /\ InRange(prev[i], x, y)})

\* initializeCollectibles
types == <<"coin", "coin", "coin", "gem", "gem", "star">>
values == [coin |-> CoinValue, gem |-> GemValue, star |-> StarValue]

\* rnd: the draws of Math.random(); t[i] = Math.floor(Math.random() * types.length),
\* x[i], y[i] the item's coordinates
initializeCollectibles(rnd) ==
  [i \in 1..NumCollectibles |->
     LET type == types[rnd.t[i] + 1]
     IN  [x |-> rnd.x[i], y |-> rnd.y[i], type |-> type, value |-> values[type],
          collected |-> FALSE]]

\* The draws the model considers.  Two items lie near the start position
\* (one inside the collision distance, one exactly on it); the rest are far
\* away, in the lower right of the arena.
NearDraw ==
  [t |-> [i \in 1..NumCollectibles |-> IF i = 1 THEN 0 ELSE IF i = 2 THEN 3 ELSE i % 6],
   x |-> [i \in 1..NumCollectibles |-> IF i = 1 THEN 430 ELSE IF i = 2 THEN 435 ELSE 600 + i],
   y |-> [i \in 1..NumCollectibles |-> IF i <= 2 THEN 300 ELSE 500]]

FarDraw ==
  [t |-> [i \in 1..NumCollectibles |-> (i + 1) % 6],
   x |-> [i \in 1..NumCollectibles |-> IF i = 1 THEN 440 ELSE 600 + i],
   y |-> [i \in 1..NumCollectibles |-> IF i = 1 THEN 300 ELSE 500]]

\* a gem to the right and a coin to the left of the start position, each one
\* step outside the collision distance
SplitDraw ==
  [t |-> [i \in 1..NumCollectibles |-> IF i = 1 THEN 3 ELSE IF i = 2 THEN 0 ELSE i % 6],
   x |-> [i \in 1..NumCollectibles |-> IF i = 1 THEN 439 ELSE IF i = 2 THEN 361 ELSE 600 + i],
   y |-> [i \in 1..NumCollectibles |-> IF i <= 2 THEN 300 ELSE 500]]

RandomDraws == {NearDraw, FarDraw, SplitDraw}

\* the draws taken when a canvas mounts in the course of a behaviour
MountDraws == {NearDraw}

\* endGame's ranking -------------------------------------------------------
\* the score the comparator reads for a participant
ScoreOf(rp, score) == IF rp.player_id = Me THEN score ELSE rp.score

\* [...roomPlayers].sort((a, b) => scoreB - scoreA): Array.prototype.sort is
\* stable; modelled as an insertion sort that puts each element behind every
\* element the comparator does not order after it
RECURSIVE InsertSorted(_, _, _)
InsertSorted(sorted, rp, score) ==
  IF sorted = <<>> THEN <<rp>>
  ELSE IF ScoreOf(rp, score) - ScoreOf(Head(sorted), score) > 0
       THEN <<rp>> \o sorted
       ELSE <<Head(sorted)>> \o InsertSorted(Tail(sorted), rp, score)

RECURSIVE SortPlayers(_, _)
SortPlayers(list, score) ==
  IF list = <<>> THEN <<>>
  ELSE InsertSorted(SortPlayers(SubSeq(list, 1, Len(list) - 1), score),
                    list[Len(list)], score)

\* sortedPlayers.findIndex(rp => rp.player_id === player.id): 0-based, -1 if none
FindIndexMe(list) ==
  IF \A i \in DOMAIN list : list[i].player_id /= Me THEN -1
  ELSE (CHOOSE i \in DOMAIN list :
          /\ list[i].player_id = Me
          /\ \A j \in 1..(i - 1) : list[j].player_id /= Me) - 1

\* myRank
MyRank(list, score) == FindIndexMe(SortPlayers(list, score)) + 1

\* ---------------------------------------------------------------- state
VARIABLES
  \* the remote store
  players,          \* the local player's row: total_score, games_played, wins
  game_scores,      \* the rows inserted into game_scores, in insertion order
  game_rooms,       \* room id -> NULL or Some(row)
  room_players,     \* room id -> its participant rows, in the order a select returns them
  \* usePlayer / App / Lobby
  player,           \* the Player snapshot of usePlayer, or NULL
  currentRoomId,    \* NULL or Some(room id)
  rooms,            \* Lobby's list: room id -> the row it loaded, for the waiting rooms
  \* GameRoom
  room,             \* NULL or Some(row)
  roomPlayers,      \* the participant mirror
  myRoomPlayer,     \* NULL or Some(row)
  isReady,
  cleanupClosure,   \* what the cleanup of the [roomId] effect closes over
  roomChannel,      \* subscribed or not, and the notifications not yet delivered
  loadRoomPending,  \* loadRoom() awaiting its answer
  joinRoomCall,     \* where the joinRoom() call stands, and for which room
  pendingLoads,     \* answers of loadRoomPlayers() reads not yet applied
  \* GameCanvas
  mounted,
  collectibles,
  myPosition,
  myScore,
  gameTime,
  keysPressed,
  lastUpdateTime,
  timer,            \* the setInterval timer is registered
  animationFrameId, \* a frame is requested
  timerClosure,     \* what the [] effect's endGame closes over
  loopClosure,      \* what the current game-loop effect closes over
  depsChanged,      \* the game-loop effect's dependencies changed since it ran
  frames,           \* game-loop runs so far, the ones at mounting aside
  lastTick,         \* the last run of updateGame (what it started from and did),
                    \* while the keys and the clock are as they were in it
  session,          \* mounts of GameCanvas so far
  timerTicks,       \* runs of the interval callback since the canvas mounted
  \* asynchronous endGame calls and the clock
  endGames,
  now,
  \* the other clients
  others            \* client -> where its joinRoom() call stands, its participant
                    \* mirror, the mirror its canvas was first rendered with (or
                    \* NULL) and whether its endGame has run

storeVars == <<players, game_scores, game_rooms, room_players>>
appVars == <<player, currentRoomId, rooms>>
roomVars == <<room, roomPlayers, myRoomPlayer, isReady, cleanupClosure, roomChannel,
              loadRoomPending, joinRoomCall, pendingLoads>>
simVars == <<collectibles, myPosition, myScore, keysPressed, lastUpdateTime,
             loopClosure, depsChanged, frames>>
simLog == <<frames, lastTick>>
canvasVars == <<mounted, gameTime, timer, animationFrameId, timerClosure, session, timerTicks, simVars,
               lastTick>>
vars == <<storeVars, appVars, roomVars, canvasVars, endGames, now, others>>

\* the clients modelled by their joinRoom() calls only, and the player each is
\* logged in as: a second client of the local player, and a further player
Others == {"c2", "c3"}
Guest == "p9"
PlayerOf(c) == IF c = "c2" THEN Me ELSE Guest
OthersInLobby ==
  [c \in Others |-> [pc |-> "lobby", count |-> 0, roomPlayers |-> <<>>, canvas |-> NULL,
                     ended |-> FALSE]]

\* column defaults of the schema
NewPlayerRow == [total_score |-> 0, games_played |-> 0, wins |-> 0]
NewRoom(host) ==
  [host_player_id |-> host, max_players |-> DefaultMaxPlayers, current_players |-> 0,
   status |-> "waiting"]
NewRoomPlayer(r, p) ==
  [room_id |-> r, player_id |-> p, position_x |-> StartX, position_y |-> StartY,
   score |-> 0, is_ready |-> FALSE]

\* Lobby's useState([])
NoRooms == [r \in {} |-> NULL]

\* the local player's row among rows (NULL if none)
MyRowIn(rows) ==
  IF \E i \in DOMAIN rows : rows[i].player_id = Me
  THEN Some(rows[CHOOSE i \in DOMAIN rows : rows[i].player_id = Me])
  ELSE NULL

\* whether the store takes a room_players row of player p for a room with
\* record rm and rows rows: room_id REFERENCES game_rooms(id), and
\* UNIQUE(room_id, player_id)
InsertAcceptedNoUnique(rows, p, rm) == rm /= NULL
InsertAccepted(rows, p, rm) ==
  /\ rm /= NULL
  /\ \A i \in DOMAIN rows : rows[i].player_id /= p

\* rows with the row of player p changed by f
UpdateRow(rows, p, field, v) ==
  [i \in DOMAIN rows |-> IF rows[i].player_id = p THEN [rows[i] EXCEPT ![field] = v]
                                                   ELSE rows[i]]

Init ==
  /\ players = NewPlayerRow
  /\ game_scores = <<>>
  /\ game_rooms = [r \in Rooms |-> NULL]
  /\ room_players = [r \in Rooms |-> <<>>]
  /\ player = NULL
  /\ currentRoomId = NULL
  /\ rooms = NoRooms
  /\ room = NULL
  /\ roomPlayers = <<>>
  /\ myRoomPlayer = NULL
  /\ isReady = FALSE
  /\ cleanupClosure = [myRoomPlayer |-> NULL, room |-> NULL]
  /\ roomChannel = [subscribed |-> FALSE, room_updates |-> <<>>, players_changed |-> FALSE,
                    room_deleted |-> FALSE]
  /\ loadRoomPending = FALSE
  /\ joinRoomCall = [pc |-> "idle", roomId |-> 0, count |-> 0]
  /\ pendingLoads = {}
  /\ mounted = FALSE
  /\ collectibles = <<>>
  /\ myPosition = [x |-> StartX, y |-> StartY]
  /\ myScore = 0
  /\ gameTime = GameSeconds
  /\ keysPressed = {}
  /\ lastUpdateTime = 0
  /\ timer = FALSE
  /\ animationFrameId = FALSE
  /\ timerClosure = [myScore |-> 0, roomPlayers |-> <<>>, player |-> NewPlayerRow, roomId |-> 0]
  /\ loopClosure = [myPosition |-> [x |-> StartX, y |-> StartY], myScore |-> 0,
                    myRoomPlayer |-> NULL, roomPlayers |-> <<>>]
  /\ depsChanged = FALSE
  /\ frames = 0
  /\ lastTick = NULL
  /\ session = 0
  /\ timerTicks = 0
  /\ endGames = <<>>
  /\ now = StartTime
  /\ others = OthersInLobby

\* ------------------------------------------------- realtime notifications
\* postgres_changes on game_rooms, filter id = roomId: the UPDATE payload is queued
RoomUpdated(ch, r, row) ==
  IF ch.subscribed /\ currentRoomId = Some(r)
  THEN [ch EXCEPT !.room_updates = Append(@, row)]
  ELSE ch

\* postgres_changes on room_players, filter room_id = roomId
PlayersChanged(ch, r) ==
  IF ch.subscribed /\ currentRoomId = Some(r)
  THEN [ch EXCEPT !.players_changed = TRUE]
  ELSE ch

\* ------------------------------------------------------ GameCanvas: mount
StartPosition == [x |-> StartX, y |-> StartY]

\* First render and first run of both effects.  The [] effect calls
\* initializeCollectibles() and registers the timer; its endGame closes over
\* this render's myScore, roomPlayers and player.  The game-loop effect then
\* calls gameLoop() once: no key is held, lastUpdateTime is 0, so updateGame
\* runs checkCollisions(400, 300), whose updater is queued behind
\* setCollectibles(items) and so runs at the next render, after the
\* scoreChanged test.  MountTick is the record of this run.
MountTick(rnd) ==
  Some([from |-> StartPosition, to |-> StartPosition, at |-> now, since |-> now,
        pushed |-> FALSE, gained |-> Gained(initializeCollectibles(rnd), StartX, StartY),
        scored |-> FALSE])

MountCanvas(rnd) ==
  /\ mounted' = TRUE
  /\ gameTime' = GameSeconds
  /\ myPosition' = StartPosition
  /\ myScore' = 0
  /\ keysPressed' = {}
  /\ lastUpdateTime' = 0
  /\ timer' = TRUE
  /\ animationFrameId' = TRUE
  /\ timerClosure' = [myScore |-> 0, roomPlayers |-> roomPlayers, player |-> The(player),
                      roomId |-> The(currentRoomId)]
  /\ loopClosure' = [myPosition |-> StartPosition, myScore |-> 0,
                     myRoomPlayer |-> myRoomPlayer, roomPlayers |-> roomPlayers]
  /\ collectibles' = CollectAt(initializeCollectibles(rnd), StartX, StartY)
  /\ depsChanged' = TRUE
  /\ session' = session + 1
  /\ timerTicks' = 0
  /\ lastTick' = MountTick(rnd)
  /\ UNCHANGED frames

\* The cleanups of both effects: clearInterval(timer), removeEventListener,
\* cancelAnimationFrame(animationFrameId.current).  The component's state and
\* refs are gone with it; the variables go back to their initial values.
UnmountCanvasKeepTimer ==
  /\ mounted' = FALSE
  /\ timer' = timer
  /\ animationFrameId' = FALSE
  /\ gameTime' = GameSeconds
  /\ myPosition' = StartPosition
  /\ myScore' = 0
  /\ collectibles' = <<>>
  /\ keysPressed' = {}
  /\ lastUpdateTime' = 0
  /\ loopClosure' = [myPosition |-> StartPosition, myScore |-> 0, myRoomPlayer |-> NULL,
                     roomPlayers |-> <<>>]
  /\ depsChanged' = FALSE
  /\ lastTick' = NULL
  /\ timerTicks' = 0
  /\ UNCHANGED <<timerClosure, frames, session>>
UnmountCanvas ==
  /\ mounted' = FALSE
  /\ timer' = FALSE
  /\ animationFrameId' = FALSE
  /\ gameTime' = GameSeconds
  /\ myPosition' = StartPosition
  /\ myScore' = 0
  /\ collectibles' = <<>>
  /\ keysPressed' = {}
  /\ lastUpdateTime' = 0
  /\ loopClosure' = [myPosition |-> StartPosition, myScore |-> 0, myRoomPlayer |-> NULL,
                     roomPlayers |-> <<>>]
  /\ depsChanged' = FALSE
  /\ lastTick' = NULL
  /\ timerTicks' = 0
  /\ UNCHANGED <<timerClosure, frames, session>>

\* GameRoom renders GameCanvas iff room.status === 'playing'
ShowsCanvas(rm) == rm /= NULL /\ The(rm).status = "playing"

\* the canvas after GameRoom re-renders with room = rm
RenderCanvas(rm) ==
  IF ShowsCanvas(rm) /\ ~mounted THEN \E rnd \in MountDraws : MountCanvas(rnd)
  ELSE IF ~ShowsCanvas(rm) /\ mounted THEN UnmountCanvas
  ELSE UNCHANGED canvasVars

\* ------------------------------------------------ GameCanvas: simulation
\* the participant rows after updatePlayerPosition / updatePlayerScore, which
\* write only when the GameRoom render they come from had a myRoomPlayer
RowsAfterTick(rows, mrp, push, pos, scored, score) ==
  LET a == IF push /\ mrp /= NULL
           THEN UpdateRow(UpdateRow(rows, Me, "position_x", pos.x), Me, "position_y", pos.y)
           ELSE rows
  IN  IF scored /\ mrp /= NULL THEN UpdateRow(a, Me, "score", score) ELSE a

\* the two tests of updateGame on since = now - lastUpdateTime.current
Gated(since) == since < TickGate
ShouldPushWhenMoved(moved, since) == moved
ShouldPush(moved, since) == moved /\ since > PushGate

\* updateGame() followed by checkCollisions(), run from closure c.  eager tells
\* whether the updater given to setCollectibles has run when scoreChanged is
\* tested; rerun tells whether the call comes from a re-run of the effect.
updateGame(c, eager, rerun) ==
  IF Gated(now - lastUpdateTime)
  THEN /\ depsChanged' = (IF rerun THEN FALSE ELSE depsChanged)
       /\ UNCHANGED <<myPosition, collectibles, myScore, lastUpdateTime, room_players,
                      roomChannel, lastTick>>
  ELSE LET new == NewPosition(c.myPosition, keysPressed)
           moved == new /= c.myPosition
           push == ShouldPush(moved, now - lastUpdateTime)
           gained == IF eager THEN Gained(collectibles, new.x, new.y) ELSE 0
           newScore == c.myScore + gained
           scored == gained > 0 /\ newScore /= c.myScore
           r == The(currentRoomId)
           wrote == (push \/ scored) /\ c.myRoomPlayer /= NULL
       IN  /\ myPosition' = (IF moved THEN new ELSE myPosition)
           /\ lastUpdateTime' = (IF push THEN now ELSE lastUpdateTime)
           /\ collectibles' = CollectAt(collectibles, new.x, new.y)
           /\ myScore' = (IF scored THEN newScore ELSE myScore)
           /\ room_players' = [room_players EXCEPT ![r] =
                 RowsAfterTick(@, c.myRoomPlayer, push, new, scored, newScore)]
           /\ roomChannel' = (IF wrote THEN PlayersChanged(roomChannel, r) ELSE roomChannel)
           /\ depsChanged' = TRUE
           /\ lastTick' = Some([from |-> c.myPosition, to |-> new, at |-> now,
                                 since |-> now - lastUpdateTime, pushed |-> push,
                                 gained |-> Gained(collectibles, new.x, new.y),
                                 scored |-> scored])

\* renderGame(ctx), run from closure c: where each participant of the mirror
\* is drawn.  The store's coordinates are numbers here, which Number() keeps.
DrawnPositionMirrored(rp, pos) == [x |-> rp.position_x, y |-> rp.position_y]
DrawnPosition(rp, pos) ==
  IF rp.player_id = Me THEN pos ELSE [x |-> rp.position_x, y |-> rp.position_y]
renderGame(c) == [i \in DOMAIN c.roomPlayers |-> DrawnPosition(c.roomPlayers[i], c.myPosition)]

\* requestAnimationFrame fires: gameLoop() of the effect that requested it
AnimationFrame ==
  /\ animationFrameId
  /\ \E eager \in BOOLEAN : updateGame(loopClosure, eager, FALSE)
  /\ frames' = frames + 1
  /\ UNCHANGED <<players, game_scores, game_rooms, appVars, room, roomPlayers, myRoomPlayer,
                 isReady, cleanupClosure, loadRoomPending, joinRoomCall, pendingLoads,
                 mounted, gameTime, timer, animationFrameId, timerClosure, session, timerTicks,
                 keysPressed, loopClosure, endGames, now, others>>

\* a dependency changed: the effect is cleaned up and run again from the
\* current render, and calls gameLoop() at once
LoopEffect ==
  /\ mounted /\ depsChanged
  /\ loopClosure' = [myPosition |-> myPosition, myScore |-> myScore,
                     myRoomPlayer |-> myRoomPlayer, roomPlayers |-> roomPlayers]
  /\ \E eager \in BOOLEAN : updateGame(loopClosure', eager, TRUE)
  /\ frames' = frames + 1
  /\ UNCHANGED <<players, game_scores, game_rooms, appVars, room, roomPlayers, myRoomPlayer,
                 isReady, cleanupClosure, loadRoomPending, joinRoomCall, pendingLoads,
                 mounted, gameTime, timer, animationFrameId, timerClosure, session, timerTicks,
                 keysPressed, endGames, now, others>>

handleKeyDown(k) ==
  /\ mounted
  /\ keysPressed' = KeysAfterDown(keysPressed, k)
  /\ lastTick' = NULL
  /\ UNCHANGED <<storeVars, appVars, roomVars, mounted, gameTime, timer, animationFrameId,
                 timerClosure, session, timerTicks, collectibles, myPosition, myScore, lastUpdateTime,
                 loopClosure, depsChanged, frames, endGames, now, others>>

handleKeyUp(k) ==
  /\ mounted
  /\ keysPressed' = KeysAfterUp(keysPressed, k)
  /\ lastTick' = NULL
  /\ UNCHANGED <<storeVars, appVars, roomVars, mounted, gameTime, timer, animationFrameId,
                 timerClosure, session, timerTicks, collectibles, myPosition, myScore, lastUpdateTime,
                 loopClosure, depsChanged, frames, endGames, now, others>>

\* Date.now() advances
AdvanceClock(d) ==
  /\ now' = now + d
  /\ UNCHANGED others
  /\ lastTick' = NULL
  /\ UNCHANGED <<storeVars, appVars, roomVars, mounted, gameTime, timer, animationFrameId,
                 timerClosure, session, timerTicks, simVars, endGames>>

\* ------------------------------------------------- GameCanvas: countdown
\* endGame() up to its first await, run from the closure c of the render in
\* which the [] effect ran.  The call is recorded with what it will write;
\* session, at_myScore and at_roomPlayers note the mount it belongs to and the
\* state current when it is called (call, in a game_scores row, the call that
\* inserted it).
endGame(c) ==
  LET myRank == MyRank(c.roomPlayers, c.myScore)
      isWinner == myRank = 1
  IN  [pc |-> "insert",
       roomId |-> c.roomId,
       score |-> c.myScore,
       rank |-> myRank,
       total_score |-> c.player.total_score + c.myScore,
       games_played |-> c.player.games_played + 1,
       wins |-> IF isWinner THEN c.player.wins + 1 ELSE c.player.wins,
       attempts |-> <<>>,
       session |-> session,
       at_myScore |-> myScore,
       at_roomPlayers |-> roomPlayers]

\* the updater of setGameTime applied to prev
NextGameTimeNoFloor(prev) == prev - 1
NextGameTime(prev) == IF prev <= 1 THEN 0 ELSE prev - 1
CallsEndGame(prev) == prev <= 1

\* the interval fires: setGameTime(prev => ...)
TimerTick ==
  /\ timer
  /\ gameTime' = NextGameTime(gameTime)
  /\ endGames' = IF CallsEndGame(gameTime) THEN Append(endGames, endGame(timerClosure))
                                           ELSE endGames
  /\ UNCHANGED <<storeVars, appVars, roomVars, mounted, timer, animationFrameId,
                 timerClosure, session, simVars, lastTick, now, others>>
  /\ timerTicks' = timerTicks + 1

\* pc after a write of endGame has been answered (the answer is not looked at)
AfterInsertAbort(ok) == IF ok THEN "update" ELSE "done"
AfterInsert(ok) == "update"
AfterUpdateStop(ok) == "done"
AfterUpdate(ok) == "status"
AfterStatus(ok) == "done"

\* await supabase.from('game_scores').insert(...): ok tells whether the store
\* accepted the write
EndGameInsert(i, ok) ==
  /\ endGames[i].pc = "insert"
  /\ game_scores' = IF ok THEN Append(game_scores,
                                 [room_id |-> endGames[i].roomId, player_id |-> Me,
                                  score |-> endGames[i].score, rank |-> endGames[i].rank,
                                  call |-> i])
                          ELSE game_scores
  /\ endGames' = [endGames EXCEPT ![i].pc = AfterInsert(ok),
                                  ![i].attempts = Append(@, [op |-> "insert", ok |-> ok])]
  /\ UNCHANGED <<players, game_rooms, room_players, appVars, roomVars, canvasVars, now, others>>

\* await supabase.from('players').update(...)
EndGameUpdate(i, ok) ==
  /\ endGames[i].pc = "update"
  /\ players' = IF ok THEN [total_score |-> endGames[i].total_score,
                            games_played |-> endGames[i].games_played,
                            wins |-> endGames[i].wins]
                      ELSE players
  /\ endGames' = [endGames EXCEPT ![i].pc = AfterUpdate(ok),
                                  ![i].attempts = Append(@, [op |-> "update", ok |-> ok])]
  /\ UNCHANGED <<game_scores, game_rooms, room_players, appVars, roomVars, canvasVars, now, others>>

\* await supabase.from('game_rooms').update({ status: 'finished' })
EndGameStatus(i, ok) ==
  LET r == endGames[i].roomId
      row == [The(game_rooms[r]) EXCEPT !.status = "finished"]
  IN  /\ endGames[i].pc = "status"
      /\ game_rooms' = IF ok THEN [game_rooms EXCEPT ![r] = Some(row)] ELSE game_rooms
      /\ roomChannel' = IF ok THEN RoomUpdated(roomChannel, r, row) ELSE roomChannel
      /\ endGames' = [endGames EXCEPT ![i].pc = AfterStatus(ok),
                                      ![i].attempts = Append(@, [op |-> "status", ok |-> ok])]
      /\ UNCHANGED <<players, game_scores, room_players, appVars, room, roomPlayers,
                     myRoomPlayer, isReady, cleanupClosure, loadRoomPending, joinRoomCall,
                     pendingLoads, canvasVars, now, others>>

\* ---------------------------------------------------------- usePlayer, App
\* usePlayer's mount effect: loadPlayer(storedPlayerId) -> setPlayer(data)
loadPlayer ==
  /\ player = NULL
  /\ player' = Some(players)
  /\ UNCHANGED <<storeVars, currentRoomId, rooms, roomVars, canvasVars, endGames, now, others>>

InLobby == player /= NULL /\ currentRoomId = NULL

\* Lobby.loadRooms: the rooms with status 'waiting'
WaitingRooms == {r \in Rooms : game_rooms[r] /= NULL /\ The(game_rooms[r]).status = "waiting"}

loadRooms ==
  /\ InLobby
  /\ rooms' = [r \in WaitingRooms |-> The(game_rooms[r])]
  /\ UNCHANGED <<storeVars, player, currentRoomId, roomVars, canvasVars, endGames, now, others>>

FreeRooms == {r \in Rooms : game_rooms[r] = NULL /\ \A q \in 1..(r - 1) : game_rooms[q] /= NULL}

\* GameRoom mounts for room r: initial state, then the [roomId] effect runs
\* loadRoom(), joinRoom() and subscribes; its cleanup closes over this render
MountGameRoom(r) ==
  /\ currentRoomId' = Some(r)
  /\ rooms' = NoRooms
  /\ room' = NULL
  /\ roomPlayers' = <<>>
  /\ myRoomPlayer' = NULL
  /\ isReady' = FALSE
  /\ cleanupClosure' = [myRoomPlayer |-> myRoomPlayer', room |-> room']
  /\ roomChannel' = [subscribed |-> TRUE, room_updates |-> <<>>, players_changed |-> FALSE,
                    room_deleted |-> FALSE]
  /\ loadRoomPending' = TRUE
  /\ joinRoomCall' = [pc |-> "select", roomId |-> r, count |-> 0]
  /\ pendingLoads' = {}

JoinRoomIdle == joinRoomCall.pc \in {"idle", "done"}

\* the Join button of a listed room: disabled={room.current_players >= room.max_players}
JoinEnabled(row) == ~(row.current_players >= row.max_players)

\* App.handleJoinRoom from the Lobby's Join button
handleJoinRoom(r) ==
  /\ InLobby /\ r \in DOMAIN rooms /\ JoinEnabled(rooms[r]) /\ JoinRoomIdle
  /\ MountGameRoom(r)
  /\ UNCHANGED <<storeVars, player, canvasVars, endGames, now, others>>

\* Lobby.createRoom: insert the room, then onJoinRoom(data.id)
createRoom ==
  /\ InLobby /\ JoinRoomIdle
  /\ \E r \in FreeRooms :
       /\ game_rooms' = [game_rooms EXCEPT ![r] = Some(NewRoom(Me))]
       /\ MountGameRoom(r)
  /\ UNCHANGED <<players, game_scores, room_players, player, canvasVars, endGames, now, others>>

\* leaveRoom() run from closure c: the store after it (r the room)
RowsWithoutMe(rows) == SelectSeq(rows, LAMBDA rp : rp.player_id /= Me)

RoomPlayersAfterLeave(c, r) ==
  IF c.myRoomPlayer /= NULL
  THEN [room_players EXCEPT ![r] = RowsWithoutMe(@)]
  ELSE room_players

GameRoomsAfterLeave(c, r) ==
  IF c.myRoomPlayer /= NULL /\ game_rooms[r] /= NULL
  THEN IF c.room /= NULL /\ The(c.room).host_player_id = Me
       THEN [game_rooms EXCEPT ![r] = NULL]
       ELSE [game_rooms EXCEPT ![r] =
               Some([The(@) EXCEPT !.current_players = Len(RowsWithoutMe(room_players[r]))])]
  ELSE game_rooms

\* App.handleLeaveRoom, the onLeaveRoom of GameRoom: GameRoom unmounts, and
\* GameCanvas with it; the cleanup of the [roomId] effect runs leaveRoom() and
\* unsubscribes
onLeaveRoom ==
  /\ currentRoomId /= NULL
  /\ currentRoomId' = NULL
  /\ rooms' = NoRooms
  /\ room_players' = RoomPlayersAfterLeave(cleanupClosure, The(currentRoomId))
  /\ game_rooms' = GameRoomsAfterLeave(cleanupClosure, The(currentRoomId))
  /\ roomChannel' = [subscribed |-> FALSE, room_updates |-> <<>>, players_changed |-> FALSE,
                    room_deleted |-> FALSE]
  /\ room' = NULL
  /\ roomPlayers' = <<>>
  /\ myRoomPlayer' = NULL
  /\ isReady' = FALSE
  /\ loadRoomPending' = FALSE
  /\ pendingLoads' = {}
  /\ IF mounted THEN UnmountCanvas ELSE UNCHANGED canvasVars
  /\ UNCHANGED <<players, game_scores, player, cleanupClosure, joinRoomCall, endGames, now, others>>

\* the Leave button, rendered once room is loaded
handleLeaveRoom == room /= NULL /\ onLeaveRoom

\* a game_rooms DELETE notification is delivered: onLeaveRoom()
RoomDeleteEvent ==
  /\ roomChannel.subscribed /\ roomChannel.room_deleted
  /\ onLeaveRoom

\* ------------------------------------------------------------- GameRoom
\* the GameRoom that issued the joinRoom() call is still mounted
JoinAlive == currentRoomId = Some(joinRoomCall.roomId)

\* loadRoom(): the answer arrives; setRoom(data) if there is a row
LoadRoomAnswer ==
  /\ loadRoomPending /\ currentRoomId /= NULL
  /\ loadRoomPending' = FALSE
  /\ room' = (IF game_rooms[The(currentRoomId)] /= NULL THEN game_rooms[The(currentRoomId)]
                                                       ELSE room)
  /\ RenderCanvas(room')
  /\ UNCHANGED <<storeVars, appVars, roomPlayers, myRoomPlayer, isReady, cleanupClosure,
                 roomChannel, joinRoomCall, pendingLoads, endGames, now, others>>

\* joinRoom(): the select for an existing row is answered
JoinRoomSelect ==
  LET existing == MyRowIn(room_players[joinRoomCall.roomId])
  IN  /\ joinRoomCall.pc = "select"
      /\ joinRoomCall' = [joinRoomCall EXCEPT !.pc = IF existing /= NULL THEN "done" ELSE "insert"]
      /\ myRoomPlayer' = (IF existing /= NULL /\ JoinAlive THEN existing ELSE myRoomPlayer)
      /\ isReady' = (IF existing /= NULL /\ JoinAlive THEN The(existing).is_ready ELSE isReady)
      /\ UNCHANGED <<storeVars, appVars, room, roomPlayers, cleanupClosure, roomChannel,
                     loadRoomPending, pendingLoads, canvasVars, endGames, now, others>>

\* joinRoom(): the insert is answered
JoinRoomInsert ==
  LET r == joinRoomCall.roomId
      row == NewRoomPlayer(r, Me)
      accepted == InsertAccepted(room_players[r], Me, game_rooms[r])
  IN  /\ joinRoomCall.pc = "insert"
      /\ room_players' = (IF accepted THEN [room_players EXCEPT ![r] = Append(@, row)]
                                      ELSE room_players)
      /\ roomChannel' = (IF accepted THEN PlayersChanged(roomChannel, r) ELSE roomChannel)
      /\ myRoomPlayer' = (IF accepted /\ JoinAlive THEN Some(row) ELSE myRoomPlayer)
      /\ joinRoomCall' = [joinRoomCall EXCEPT !.pc = IF accepted THEN "count" ELSE "done"]
      /\ UNCHANGED <<players, game_scores, game_rooms, appVars, room, roomPlayers, isReady,
                     cleanupClosure, loadRoomPending, pendingLoads, canvasVars, endGames, now, others>>

\* updateRoomPlayerCount(): the count is read
JoinRoomCount ==
  /\ joinRoomCall.pc = "count"
  /\ joinRoomCall' = [joinRoomCall EXCEPT !.pc = "update",
                                          !.count = Len(room_players[joinRoomCall.roomId])]
  /\ UNCHANGED <<storeVars, appVars, room, roomPlayers, myRoomPlayer, isReady, cleanupClosure,
                 roomChannel, loadRoomPending, pendingLoads, canvasVars, endGames, now, others>>

\* updateRoomPlayerCount(): current_players is written; then joinRoom calls
\* loadRoomPlayers(), whose read is taken here
JoinRoomUpdate ==
  LET r == joinRoomCall.roomId
      row == [The(game_rooms[r]) EXCEPT !.current_players = joinRoomCall.count]
  IN  /\ joinRoomCall.pc = "update"
      /\ joinRoomCall' = [joinRoomCall EXCEPT !.pc = "done"]
      /\ game_rooms' = (IF game_rooms[r] /= NULL THEN [game_rooms EXCEPT ![r] = Some(row)]
                                                 ELSE game_rooms)
      /\ roomChannel' = (IF game_rooms[r] /= NULL THEN RoomUpdated(roomChannel, r, row)
                                                  ELSE roomChannel)
      /\ pendingLoads' = (IF JoinAlive THEN pendingLoads \cup {room_players[r]} ELSE pendingLoads)
      /\ UNCHANGED <<players, game_scores, room_players, appVars, room, roomPlayers,
                     myRoomPlayer, isReady, cleanupClosure, loadRoomPending, canvasVars,
                     endGames, now, others>>

\* a room_players notification is delivered: loadRoomPlayers() reads the rows
RoomPlayersEvent ==
  /\ roomChannel.subscribed /\ roomChannel.players_changed
  /\ roomChannel' = [roomChannel EXCEPT !.players_changed = FALSE]
  /\ pendingLoads' = pendingLoads \cup {room_players[The(currentRoomId)]}
  /\ UNCHANGED <<storeVars, appVars, room, roomPlayers, myRoomPlayer, isReady, cleanupClosure,
                 loadRoomPending, joinRoomCall, canvasVars, endGames, now, others>>

\* loadRoomPlayers(): an answer arrives and is applied
LoadRoomPlayersAnswerMerge(data) ==
  LET me == MyRowIn(data)
  IN  /\ data \in pendingLoads
      /\ pendingLoads' = pendingLoads \ {data}
      /\ roomPlayers' = [i \in DOMAIN data |->
                           IF i \in DOMAIN roomPlayers
                           THEN [data[i] EXCEPT !.score = roomPlayers[i].score]
                           ELSE data[i]]
      /\ myRoomPlayer' = (IF me /= NULL THEN me ELSE myRoomPlayer)
      /\ isReady' = (IF me /= NULL THEN The(me).is_ready ELSE isReady)
      /\ depsChanged' = (IF mounted THEN TRUE ELSE depsChanged)
      /\ UNCHANGED <<storeVars, appVars, room, cleanupClosure, roomChannel, loadRoomPending,
                     joinRoomCall, mounted, gameTime, timer, animationFrameId, timerClosure,
                     session, timerTicks, collectibles, myPosition, myScore, keysPressed, lastUpdateTime,
                     loopClosure, simLog, endGames, now, others>>
LoadRoomPlayersAnswer(data) ==
  LET me == MyRowIn(data)
  IN  /\ data \in pendingLoads
      /\ pendingLoads' = pendingLoads \ {data}
      /\ roomPlayers' = data
      /\ myRoomPlayer' = (IF me /= NULL THEN me ELSE myRoomPlayer)
      /\ isReady' = (IF me /= NULL THEN The(me).is_ready ELSE isReady)
      /\ depsChanged' = (IF mounted THEN TRUE ELSE depsChanged)
      /\ UNCHANGED <<storeVars, appVars, room, cleanupClosure, roomChannel, loadRoomPending,
                     joinRoomCall, mounted, gameTime, timer, animationFrameId, timerClosure,
                     session, timerTicks, collectibles, myPosition, myScore, keysPressed, lastUpdateTime,
                     loopClosure, simLog, endGames, now, others>>

\* a game_rooms UPDATE notification is delivered: setRoom(payload.new)
RoomUpdateEvent ==
  /\ roomChannel.subscribed /\ roomChannel.room_updates /= <<>>
  /\ roomChannel' = [roomChannel EXCEPT !.room_updates = Tail(@)]
  /\ room' = Some(Head(roomChannel.room_updates))
  /\ RenderCanvas(room')
  /\ UNCHANGED <<storeVars, appVars, roomPlayers, myRoomPlayer, isReady, cleanupClosure,
                 loadRoomPending, joinRoomCall, pendingLoads, endGames, now, others>>

\* the Ready button (shown while room.status === 'waiting')
toggleReady ==
  LET r == The(currentRoomId)
      newReadyState == ~isReady
  IN  /\ currentRoomId /= NULL /\ room /= NULL /\ The(room).status = "waiting"
      /\ myRoomPlayer /= NULL
      /\ room_players' = [room_players EXCEPT ![r] = UpdateRow(@, Me, "is_ready", newReadyState)]
      /\ roomChannel' = PlayersChanged(roomChannel, r)
      /\ isReady' = newReadyState
      /\ UNCHANGED <<players, game_scores, game_rooms, appVars, room, roomPlayers,
                     myRoomPlayer, cleanupClosure, loadRoomPending, joinRoomCall,
                     pendingLoads, canvasVars, endGames, now, others>>

\* canStart / the guards of startGame, for the participant list a host p sees
CanStart(rm, list, p) ==
  /\ rm.host_player_id = p
  /\ Len(list) >= 2
  /\ \A i \in DOMAIN list : list[i].is_ready \/ list[i].player_id = p

\* the Start Game button (host only, enabled iff canStart)
startGame ==
  LET r == The(currentRoomId)
      row == [The(game_rooms[r]) EXCEPT !.status = "playing"]
  IN  /\ currentRoomId /= NULL /\ room /= NULL /\ The(room).status = "waiting"
      /\ CanStart(The(room), roomPlayers, Me)
      /\ game_rooms[r] /= NULL
      /\ game_rooms' = [game_rooms EXCEPT ![r] = Some(row)]
      /\ roomChannel' = RoomUpdated(roomChannel, r, row)
      /\ UNCHANGED <<players, game_scores, room_players, appVars, room, roomPlayers,
                     myRoomPlayer, isReady, cleanupClosure, loadRoomPending, joinRoomCall,
                     pendingLoads, canvasVars, endGames, now, others>>

\* --------------------------------------------------- the other participant
\* The same GameRoom / GameCanvas code run by the client of player Host,
\* seen from the store: each action is that client's handler with its writes.

HasRow(rows, p) == \E i \in DOMAIN rows : rows[i].player_id = p

\* createRoom + joinRoom + updateRoomPlayerCount of the other client
RemoteCreateRoom ==
  /\ \E r \in FreeRooms :
       /\ game_rooms' = [game_rooms EXCEPT ![r] =
                           Some([NewRoom(Host) EXCEPT !.current_players = 1])]
       /\ room_players' = [room_players EXCEPT ![r] = <<NewRoomPlayer(r, Host)>>]
  /\ UNCHANGED <<players, game_scores, appVars, roomVars, canvasVars, endGames, now, others>>

\* joinRoom + updateRoomPlayerCount of the other client, into a waiting room
RemoteJoinRoom(r) ==
  LET rows == Append(room_players[r], NewRoomPlayer(r, Host))
      row == [The(game_rooms[r]) EXCEPT !.current_players = Len(rows)]
  IN  /\ game_rooms[r] /= NULL /\ The(game_rooms[r]).status = "waiting"
      /\ ~HasRow(room_players[r], Host)
      /\ room_players' = [room_players EXCEPT ![r] = rows]
      /\ game_rooms' = [game_rooms EXCEPT ![r] = Some(row)]
      /\ roomChannel' = RoomUpdated(PlayersChanged(roomChannel, r), r, row)
      /\ UNCHANGED <<players, game_scores, appVars, room, roomPlayers, myRoomPlayer, isReady,
                     cleanupClosure, loadRoomPending, joinRoomCall, pendingLoads, canvasVars,
                     endGames, now, others>>

\* toggleReady of the other client
RemoteToggleReady(r) ==
  LET i == CHOOSE j \in DOMAIN room_players[r] : room_players[r][j].player_id = Host
  IN  /\ game_rooms[r] /= NULL /\ The(game_rooms[r]).status = "waiting"
      /\ The(game_rooms[r]).host_player_id /= Host
      /\ HasRow(room_players[r], Host)
      /\ room_players' = [room_players EXCEPT ![r] =
                            UpdateRow(@, Host, "is_ready", ~room_players[r][i].is_ready)]
      /\ roomChannel' = PlayersChanged(roomChannel, r)
      /\ UNCHANGED <<players, game_scores, game_rooms, appVars, room, roomPlayers,
                     myRoomPlayer, isReady, cleanupClosure, loadRoomPending, joinRoomCall,
                     pendingLoads, canvasVars, endGames, now, others>>

\* startGame of the other client, hosting r (its mirror taken to be current)
RemoteStartGame(r) ==
  LET row == [The(game_rooms[r]) EXCEPT !.status = "playing"]
  IN  /\ game_rooms[r] /= NULL /\ The(game_rooms[r]).status = "waiting"
      /\ CanStart(The(game_rooms[r]), room_players[r], Host)
      /\ game_rooms' = [game_rooms EXCEPT ![r] = Some(row)]
      /\ roomChannel' = RoomUpdated(roomChannel, r, row)
      /\ UNCHANGED <<players, game_scores, room_players, appVars, room, roomPlayers,
                     myRoomPlayer, isReady, cleanupClosure, loadRoomPending, joinRoomCall,
                     pendingLoads, canvasVars, endGames, now, others>>

\* updatePlayerScore of the other client while r is being played
RemoteScore(r, v) ==
  LET i == CHOOSE j \in DOMAIN room_players[r] : room_players[r][j].player_id = Host
  IN  /\ game_rooms[r] /= NULL /\ The(game_rooms[r]).status = "playing"
      /\ HasRow(room_players[r], Host)
      /\ room_players[r][i].score < v
      /\ room_players' = [room_players EXCEPT ![r] = UpdateRow(@, Host, "score", v)]
      /\ roomChannel' = PlayersChanged(roomChannel, r)
      /\ UNCHANGED <<players, game_scores, game_rooms, appVars, room, roomPlayers,
                     myRoomPlayer, isReady, cleanupClosure, loadRoomPending, joinRoomCall,
                     pendingLoads, canvasVars, endGames, now, others>>

\* ---------------------------------------------- joins by further clients
\* The joinRoom() of the clients in Others, step by step, on the room they see
\* in their Lobby.  Their Lobby list is taken to be current when they click.

\* the Join button of room r is clicked in client c
OtherHandleJoinRoom(c, r) ==
  /\ others[c].pc = "lobby"
  /\ r \in WaitingRooms /\ JoinEnabled(The(game_rooms[r]))
  /\ others' = [others EXCEPT ![c].pc = "select"]
  /\ UNCHANGED <<storeVars, appVars, roomVars, canvasVars, endGames, now>>

\* the select for an existing row is answered
OtherJoinSelect(c, r) ==
  /\ others[c].pc = "select"
  /\ others' = [others EXCEPT ![c].pc = IF HasRow(room_players[r], PlayerOf(c))
                                         THEN "done" ELSE "insert"]
  /\ UNCHANGED <<storeVars, appVars, roomVars, canvasVars, endGames, now>>

\* the insert is answered
OtherJoinInsert(c, r) ==
  LET accepted == InsertAccepted(room_players[r], PlayerOf(c), game_rooms[r])
  IN  /\ others[c].pc = "insert"
      /\ room_players' = (IF accepted
                          THEN [room_players EXCEPT ![r] = Append(@, NewRoomPlayer(r, PlayerOf(c)))]
                          ELSE room_players)
      /\ roomChannel' = (IF accepted THEN PlayersChanged(roomChannel, r) ELSE roomChannel)
      /\ others' = [others EXCEPT ![c].pc = IF accepted THEN "count" ELSE "done"]
      /\ UNCHANGED <<players, game_scores, game_rooms, appVars, room, roomPlayers,
                     myRoomPlayer, isReady, cleanupClosure, loadRoomPending, joinRoomCall,
                     pendingLoads, canvasVars, endGames, now>>

\* updateRoomPlayerCount(): the count is read
OtherJoinCount(c, r) ==
  /\ others[c].pc = "count"
  /\ others' = [others EXCEPT ![c].pc = "update", ![c].count = Len(room_players[r])]
  /\ UNCHANGED <<storeVars, appVars, roomVars, canvasVars, endGames, now>>

\* updateRoomPlayerCount(): current_players is written
OtherJoinUpdate(c, r) ==
  LET row == [The(game_rooms[r]) EXCEPT !.current_players = others[c].count]
  IN  /\ others[c].pc = "update"
      /\ others' = [others EXCEPT ![c].pc = "done"]
      /\ game_rooms' = (IF game_rooms[r] /= NULL THEN [game_rooms EXCEPT ![r] = Some(row)]
                                                 ELSE game_rooms)
      /\ roomChannel' = (IF game_rooms[r] /= NULL THEN RoomUpdated(roomChannel, r, row)
                                                  ELSE roomChannel)
      /\ UNCHANGED <<players, game_scores, room_players, appVars, room, roomPlayers,
                     myRoomPlayer, isReady, cleanupClosure, loadRoomPending, joinRoomCall,
                     pendingLoads, canvasVars, endGames, now>>

\* client c leaves the room: the leaveRoom() of its cleanup is the one of the
\* render in which myRoomPlayer was null, and writes nothing
OtherLeaveRoom(c) ==
  /\ others[c].pc = "done"
  /\ others' = [others EXCEPT ![c].pc = "lobby", ![c].roomPlayers = <<>>,
                               ![c].canvas = NULL]
  /\ UNCHANGED <<storeVars, appVars, roomVars, canvasVars, endGames, now>>

\* client c has inserted its row: its myRoomPlayer is set
OtherJoined(c) == others[c].pc \in {"count", "update", "done"}

\* toggleReady of client c (its isReady taken to be the stored value)
OtherToggleReady(c, r) ==
  LET p == PlayerOf(c)
      i == CHOOSE j \in DOMAIN room_players[r] : room_players[r][j].player_id = p
  IN  /\ OtherJoined(c) /\ HasRow(room_players[r], p)
      /\ game_rooms[r] /= NULL /\ The(game_rooms[r]).status = "waiting"
      /\ room_players' = [room_players EXCEPT ![r] =
                            UpdateRow(@, p, "is_ready", ~room_players[r][i].is_ready)]
      /\ roomChannel' = PlayersChanged(roomChannel, r)
      /\ UNCHANGED <<players, game_scores, game_rooms, appVars, room, roomPlayers,
                     myRoomPlayer, isReady, cleanupClosure, loadRoomPending, joinRoomCall,
                     pendingLoads, canvasVars, endGames, now, others>>

\* loadRoomPlayers() of client c, read and applied
OtherLoadRoomPlayers(c, r) ==
  /\ others[c].pc /= "lobby"
  /\ others[c].roomPlayers /= room_players[r]
  /\ others' = [others EXCEPT ![c].roomPlayers = room_players[r]]
  /\ UNCHANGED <<storeVars, appVars, roomVars, canvasVars, endGames, now>>

\* the GameRoom of client c learns that r is being played and renders its
\* GameCanvas: the endGame of that render closes over the mirror of the moment
OtherMountCanvas(c, r) ==
  /\ others[c].pc /= "lobby" /\ others[c].canvas = NULL
  /\ game_rooms[r] /= NULL /\ The(game_rooms[r]).status = "playing"
  /\ others' = [others EXCEPT ![c].canvas = Some(others[c].roomPlayers)]
  /\ UNCHANGED <<storeVars, appVars, roomVars, canvasVars, endGames, now>>

\* the participant list as the code run for player p sees it: player.id is p
AsSeenBy(p, list) ==
  [i \in DOMAIN list |->
     [list[i] EXCEPT !.player_id = IF @ = p THEN Me ELSE IF @ = Me THEN p ELSE @]]

\* myRank of the endGame of client c (its myScore is that of its first render, 0)
OtherRank(c) == MyRank(AsSeenBy(PlayerOf(c), The(others[c].canvas)), 0)

\* the countdown of client c reaches zero: its endGame() inserts its score
\* record, updates its players row (not in the model) and sets r to 'finished'
OtherEndGame(c, r) ==
  LET row == [The(game_rooms[r]) EXCEPT !.status = "finished"]
  IN  /\ others[c].canvas /= NULL /\ ~others[c].ended
      /\ game_rooms[r] /= NULL
      /\ game_scores' = Append(game_scores,
                               [room_id |-> r, player_id |-> PlayerOf(c), score |-> 0,
                                rank |-> OtherRank(c), call |-> 0])
      /\ game_rooms' = [game_rooms EXCEPT ![r] = Some(row)]
      /\ roomChannel' = RoomUpdated(roomChannel, r, row)
      /\ others' = [others EXCEPT ![c].ended = TRUE]
      /\ UNCHANGED <<players, room_players, appVars, room, roomPlayers, myRoomPlayer, isReady,
                     cleanupClosure, loadRoomPending, joinRoomCall, pendingLoads, canvasVars,
                     endGames, now>>

\* The record of room r is deleted from the store (the policy lets anyone
\* delete a room, and the row goes with its host's players row); the
\* room_players rows of r go with it (ON DELETE CASCADE).  A subscribed client
\* of r is notified.
DeletedFrom(ch, r) ==
  IF ch.subscribed /\ currentRoomId = Some(r)
  THEN [ch EXCEPT !.room_deleted = TRUE,
                  !.players_changed = (@ \/ room_players[r] /= <<>>)]
  ELSE ch

RoomDeleted(r) ==
  /\ game_rooms[r] /= NULL
  /\ game_rooms' = [game_rooms EXCEPT ![r] = NULL]
  /\ room_players' = [room_players EXCEPT ![r] = <<>>]
  /\ roomChannel' = DeletedFrom(roomChannel, r)
  /\ UNCHANGED <<players, game_scores, appVars, room, roomPlayers, myRoomPlayer, isReady,
                 cleanupClosure, loadRoomPending, joinRoomCall, pendingLoads, canvasVars,
                 endGames, now, others>>

\* ------------------------------------------------------- specifications
\* the key values, clock steps and remote scores the model feeds in
KeyInputs == {"d"}
ClockSteps == {20, 60}
RemoteScores == {CoinValue}

\* the writes of endGame that the store has refused so far
RECURSIVE CountFailed(_)
CountFailed(calls) ==
  IF calls = <<>> THEN 0
  ELSE Len(SelectSeq(Head(calls).attempts, LAMBDA a : ~a.ok)) + CountFailed(Tail(calls))

\* a write may be refused only while fewer than MaxFailures have been
Outcomes == IF CountFailed(endGames) < MaxFailures THEN BOOLEAN ELSE {TRUE}

\* No request of GameRoom is under way and no notification is waiting.  In
\* Spec a user input, a timer or frame callback and a step of the other
\* client happen only then: GameRoom's requests are answered before the next
\* such event (their steps still interleave with each other and with the
\* writes of endGame).
Quiet ==
  /\ JoinRoomIdle
  /\ ~loadRoomPending
  /\ pendingLoads = {}
  /\ ~roomChannel.players_changed
  /\ ~roomChannel.room_deleted
  /\ roomChannel.room_updates = <<>>

\* Spec follows a client that goes through the rooms one after the other:
\* a room is created once the rooms before it have left 'waiting', a room is
\* entered once and after the endGame calls of the room before have run to
\* their end, and a participant who is ready stays ready.
OneRoomAtATime == WaitingRooms = {}
NotYetIn(r) == MyRowIn(room_players[r]) = NULL
HostNotReady(r) == \E i \in DOMAIN room_players[r] :
                     room_players[r][i].player_id = Host /\ ~room_players[r][i].is_ready

EndGamesDone == \A i \in DOMAIN endGames : endGames[i].pc = "done"

UserStep ==
  \/ loadPlayer
  \/ loadRooms
  \/ (OneRoomAtATime /\ EndGamesDone /\ createRoom)
  \/ \E r \in Rooms : NotYetIn(r) /\ EndGamesDone /\ handleJoinRoom(r)
  \/ handleLeaveRoom
  \/ (~isReady /\ toggleReady)
  \/ startGame
  \/ \E k \in KeyInputs : handleKeyDown(k)
  \/ \E k \in KeyInputs : handleKeyUp(k)

RemoteStep ==
  \/ (OneRoomAtATime /\ InLobby /\ RemoteCreateRoom)
  \/ \E r \in Rooms : RemoteJoinRoom(r)
  \/ \E r \in Rooms : HostNotReady(r) /\ RemoteToggleReady(r)
  \/ \E r \in Rooms : RemoteStartGame(r)

CallbackStep ==
  \/ (frames < MaxFrames /\ AnimationFrame)
  \/ (frames < MaxFrames /\ LoopEffect)
  \/ ((gameTime > 1 \/ Len(endGames) < MaxEndGames) /\ TimerTick)

AnswerStep ==
  \/ LoadRoomAnswer
  \/ JoinRoomSelect
  \/ JoinRoomInsert
  \/ JoinRoomCount
  \/ JoinRoomUpdate
  \/ RoomPlayersEvent
  \/ \E data \in pendingLoads : LoadRoomPlayersAnswer(data)
  \/ RoomUpdateEvent
  \/ \E i \in DOMAIN endGames, ok \in Outcomes : EndGameInsert(i, ok)
  \/ \E i \in DOMAIN endGames, ok \in Outcomes : EndGameUpdate(i, ok)
  \/ \E i \in DOMAIN endGames, ok \in Outcomes : EndGameStatus(i, ok)

Next ==
  \/ (Quiet /\ UserStep)
  \/ (Quiet /\ RemoteStep)
  \/ (Quiet /\ CallbackStep)
  \/ AnswerStep

Spec == Init /\ [][Next]_vars

\* SpecLive: Spec in which every write that endGame is waiting for is answered
\* in the end (an awaited request to the store resolves, with or without an
\* error).
EndGameAnswered ==
  /\ WF_vars(\E i \in DOMAIN endGames, ok \in Outcomes : EndGameInsert(i, ok))
  /\ WF_vars(\E i \in DOMAIN endGames, ok \in Outcomes : EndGameUpdate(i, ok))
  /\ WF_vars(\E i \in DOMAIN endGames, ok \in Outcomes : EndGameStatus(i, ok))

SpecLive == Spec /\ EndGameAnswered

\* SpecSim: the simulation of one mounted canvas, from the state in which
\* GameRoom (room 1, hosted by the other participant, both rows present) has
\* just rendered it, or from a state later in the game in which the player
\* has walked, clear of the collectibles, to a place near a corner and the
\* position has just been pushed and reloaded.
SimRoom == CHOOSE r \in Rooms : \A q \in Rooms : r <= q
SimKeys == {"d", "w", "a", "s"}
SimStarts == {StartPosition,
              [x |-> MaxX - speed, y |-> MinXY + speed],
              [x |-> MinXY + speed, y |-> MaxY - speed]}

SimRoomRow == [NewRoom(Host) EXCEPT !.current_players = 2, !.status = "playing"]
SimRowsAtMount == <<NewRoomPlayer(SimRoom, Host),
                    [NewRoomPlayer(SimRoom, Me) EXCEPT !.is_ready = TRUE]>>
SimRows(start) ==
  UpdateRow(UpdateRow(SimRowsAtMount, Me, "position_x", start.x), Me, "position_y", start.y)

InitSim ==
  \E rnd \in RandomDraws, start \in SimStarts :
    /\ now = StartTime
    /\ others = OthersInLobby
    /\ players = NewPlayerRow
    /\ game_scores = <<>>
    /\ game_rooms = [r \in Rooms |-> IF r = SimRoom THEN Some(SimRoomRow) ELSE NULL]
    /\ room_players = [r \in Rooms |-> IF r = SimRoom THEN SimRows(start) ELSE <<>>]
    /\ player = Some(NewPlayerRow)
    /\ currentRoomId = Some(SimRoom)
    /\ rooms = NoRooms
    /\ room = Some(SimRoomRow)
    /\ roomPlayers = SimRows(start)
    /\ myRoomPlayer = MyRowIn(SimRows(start))
    /\ isReady = TRUE
    /\ cleanupClosure = [myRoomPlayer |-> NULL, room |-> NULL]
    /\ roomChannel = [subscribed |-> TRUE, room_updates |-> <<>>, players_changed |-> FALSE,
                    room_deleted |-> FALSE]
    /\ loadRoomPending = FALSE
    /\ joinRoomCall = [pc |-> "done", roomId |-> SimRoom, count |-> 2]
    /\ pendingLoads = {}
    /\ mounted = TRUE
    /\ collectibles = CollectAt(initializeCollectibles(rnd), StartX, StartY)
    /\ myPosition = start
    /\ myScore = 0
    /\ gameTime = GameSeconds
    /\ keysPressed = {}
    /\ lastUpdateTime = (IF start = StartPosition THEN 0 ELSE StartTime)
    /\ timer = TRUE
    /\ animationFrameId = TRUE
    /\ timerClosure = [myScore |-> 0, roomPlayers |-> SimRowsAtMount, player |-> NewPlayerRow,
                       roomId |-> SimRoom]
    /\ loopClosure = [myPosition |-> start, myScore |-> 0,
                      myRoomPlayer |-> MyRowIn(SimRows(start)), roomPlayers |-> SimRows(start)]
    /\ depsChanged = TRUE
    /\ frames = 0
    /\ lastTick = (IF start = StartPosition THEN MountTick(rnd) ELSE NULL)
    /\ session = 1
    /\ timerTicks = 0
    /\ endGames = <<>>

NextSim ==
  \/ (frames < MaxSimFrames /\ AnimationFrame)
  \/ (frames < MaxSimFrames /\ LoopEffect)
  \/ \E k \in SimKeys : handleKeyDown(k)
  \/ \E k \in SimKeys : handleKeyUp(k)
  \/ \E d \in ClockSteps : now + d <= StartTime + MaxElapsed /\ AdvanceClock(d)

SpecSim == InitSim /\ [][NextSim]_vars

\* SpecSync: the same canvas with the participant mirror at work.  The ticks
\* push positions and scores, the other participant scores, each change is
\* notified, and the reads of loadRoomPlayers() are answered at any time and
\* in any order, between the ticks.
NextSync ==
  \/ (frames < MaxSyncFrames /\ AnimationFrame)
  \/ (frames < MaxSyncFrames /\ LoopEffect)
  \/ \E k \in KeyInputs : handleKeyDown(k)
  \/ \E k \in KeyInputs : handleKeyUp(k)
  \/ \E d \in ClockSteps : now + d <= StartTime + MaxElapsed /\ AdvanceClock(d)
  \/ \E v \in RemoteScores : RemoteScore(SimRoom, v)
  \/ RoomPlayersEvent
  \/ \E data \in pendingLoads : LoadRoomPlayersAnswer(data)

SpecSync == InitSim /\ [][NextSync]_vars

\* SpecKeys: the same canvas under every key event the handlers can get: the
\* eight mapped key values, a mapped letter with Shift or Caps Lock ('W'), and
\* a key that is not mapped.
AllKeys == MappedKeys \cup {"W", "x"}

NextKeys ==
  \/ (frames < MaxKeyFrames /\ AnimationFrame)
  \/ (frames < MaxKeyFrames /\ LoopEffect)
  \/ \E k \in AllKeys : handleKeyDown(k)
  \/ \E k \in AllKeys : handleKeyUp(k)
  \/ \E d \in ClockSteps : now + d <= StartTime + MaxElapsed /\ AdvanceClock(d)

SpecKeys == InitSim /\ [][NextKeys]_vars

\* SpecJoin: a waiting room in which the host alone, or the host and six more
\* players, have joined one after the other; the local client is in the Lobby
\* with its list loaded.  The local client and the clients in Others join and
\* leave, each call step by step, and the room's record may be deleted.
SeatedPlayers == <<Host, "p3", "p4", "p5", "p6", "p7", "p8">>
SeatedCounts == {1, DefaultMaxPlayers - 1}

JoinRows(k) == [i \in 1..k |-> NewRoomPlayer(SimRoom, SeatedPlayers[i])]
JoinRoomRow(k) == [NewRoom(Host) EXCEPT !.current_players = k]

InitJoin ==
  \E k \in SeatedCounts :
    /\ players = NewPlayerRow
    /\ game_scores = <<>>
    /\ game_rooms = [r \in Rooms |-> IF r = SimRoom THEN Some(JoinRoomRow(k)) ELSE NULL]
    /\ room_players = [r \in Rooms |-> IF r = SimRoom THEN JoinRows(k) ELSE <<>>]
    /\ player = Some(NewPlayerRow)
    /\ currentRoomId = NULL
    /\ rooms = [r \in {SimRoom} |-> JoinRoomRow(k)]
    /\ room = NULL
    /\ roomPlayers = <<>>
    /\ myRoomPlayer = NULL
    /\ isReady = FALSE
    /\ cleanupClosure = [myRoomPlayer |-> NULL, room |-> NULL]
    /\ roomChannel = [subscribed |-> FALSE, room_updates |-> <<>>, players_changed |-> FALSE,
                      room_deleted |-> FALSE]
    /\ loadRoomPending = FALSE
    /\ joinRoomCall = [pc |-> "idle", roomId |-> 0, count |-> 0]
    /\ pendingLoads = {}
    /\ mounted = FALSE
    /\ collectibles = <<>>
    /\ myPosition = StartPosition
    /\ myScore = 0
    /\ gameTime = GameSeconds
    /\ keysPressed = {}
    /\ lastUpdateTime = 0
    /\ timer = FALSE
    /\ animationFrameId = FALSE
    /\ timerClosure = [myScore |-> 0, roomPlayers |-> <<>>, player |-> NewPlayerRow, roomId |-> 0]
    /\ loopClosure = [myPosition |-> StartPosition, myScore |-> 0, myRoomPlayer |-> NULL,
                      roomPlayers |-> <<>>]
    /\ depsChanged = FALSE
    /\ frames = 0
    /\ lastTick = NULL
    /\ session = 0
    /\ timerTicks = 0
    /\ endGames = <<>>
    /\ now = StartTime
    /\ others = OthersInLobby

NextJoin ==
  \/ loadRooms
  \/ \E r \in Rooms : handleJoinRoom(r)
  \/ handleLeaveRoom
  \/ LoadRoomAnswer
  \/ JoinRoomSelect
  \/ JoinRoomInsert
  \/ JoinRoomCount
  \/ JoinRoomUpdate
  \/ RoomPlayersEvent
  \/ \E data \in pendingLoads : LoadRoomPlayersAnswer(data)
  \/ RoomUpdateEvent
  \/ RoomDeleteEvent
  \/ RoomDeleted(SimRoom)
  \/ \E c \in Others : OtherHandleJoinRoom(c, SimRoom)
  \/ \E c \in Others : OtherJoinSelect(c, SimRoom)
  \/ \E c \in Others : OtherJoinInsert(c, SimRoom)
  \/ \E c \in Others : OtherJoinCount(c, SimRoom)
  \/ \E c \in Others : OtherJoinUpdate(c, SimRoom)
  \/ \E c \in Others : OtherLeaveRoom(c)

SpecJoin == InitJoin /\ [][NextJoin]_vars

\* the local client in the Lobby or in SimRoom with nothing under way and the
\* canvas not rendered; the client of the further player in SimRoom
NextPlayer == "c3"
OthersInRoom ==
  [OthersInLobby EXCEPT ![NextPlayer] = [@ EXCEPT !.pc = "done"]]

ClientAtRest ==
  /\ players = NewPlayerRow
  /\ game_scores = <<>>
  /\ player = Some(NewPlayerRow)
  /\ cleanupClosure = [myRoomPlayer |-> NULL, room |-> NULL]
  /\ loadRoomPending = FALSE
  /\ pendingLoads = {}
  /\ isReady = FALSE
  /\ mounted = FALSE
  /\ collectibles = <<>>
  /\ myPosition = StartPosition
  /\ myScore = 0
  /\ gameTime = GameSeconds
  /\ keysPressed = {}
  /\ lastUpdateTime = 0
  /\ timer = FALSE
  /\ animationFrameId = FALSE
  /\ timerClosure = [myScore |-> 0, roomPlayers |-> <<>>, player |-> NewPlayerRow, roomId |-> 0]
  /\ loopClosure = [myPosition |-> StartPosition, myScore |-> 0, myRoomPlayer |-> NULL,
                    roomPlayers |-> <<>>]
  /\ depsChanged = FALSE
  /\ frames = 0
  /\ lastTick = NULL
  /\ session = 0
  /\ timerTicks = 0
  /\ endGames = <<>>
  /\ now = StartTime

\* SpecRoom: the room of the other participant, in which one more player has
\* joined and is ready, from 'waiting' to 'finished', with the local client
\* and the client of the further player in their Lobbies.  Both join at any
\* time (the local player does not touch its Ready button), and the host
\* starts the game at any time.  Every request and
\* notification of the local client is answered at any time; the client of
\* the further player reloads its mirror, renders its canvas and ends its
\* game at any time; the countdown of the local canvas runs while nothing of
\* the local client is under way.
RoomRowAtJoin == [NewRoom(Host) EXCEPT !.current_players = 2]
RoomRowsAtJoin == <<NewRoomPlayer(SimRoom, Host),
                    [NewRoomPlayer(SimRoom, SeatedPlayers[2]) EXCEPT !.is_ready = TRUE]>>

InitRoom ==
  /\ ClientAtRest
  /\ game_rooms = [r \in Rooms |-> IF r = SimRoom THEN Some(RoomRowAtJoin) ELSE NULL]
  /\ room_players = [r \in Rooms |-> IF r = SimRoom THEN RoomRowsAtJoin ELSE <<>>]
  /\ currentRoomId = NULL
  /\ rooms = [r \in {SimRoom} |-> RoomRowAtJoin]
  /\ room = NULL
  /\ roomPlayers = <<>>
  /\ myRoomPlayer = NULL
  /\ roomChannel = [subscribed |-> FALSE, room_updates |-> <<>>, players_changed |-> FALSE,
                    room_deleted |-> FALSE]
  /\ joinRoomCall = [pc |-> "idle", roomId |-> 0, count |-> 0]
  /\ others = OthersInLobby

NextRoom ==
  \/ handleJoinRoom(SimRoom)
  \/ LoadRoomAnswer
  \/ JoinRoomSelect
  \/ JoinRoomInsert
  \/ JoinRoomCount
  \/ JoinRoomUpdate
  \/ (Cardinality(pendingLoads) < MaxPendingLoads /\ RoomPlayersEvent)
  \/ \E data \in pendingLoads : LoadRoomPlayersAnswer(data)
  \/ RoomUpdateEvent
  \/ RemoteStartGame(SimRoom)
  \/ (Quiet /\ (gameTime > 1 \/ Len(endGames) < MaxEndGames) /\ TimerTick)
  \/ \E i \in DOMAIN endGames : EndGameInsert(i, TRUE)
  \/ \E i \in DOMAIN endGames : EndGameUpdate(i, TRUE)
  \/ \E i \in DOMAIN endGames : EndGameStatus(i, TRUE)
  \/ OtherHandleJoinRoom(NextPlayer, SimRoom)
  \/ OtherJoinSelect(NextPlayer, SimRoom)
  \/ OtherJoinInsert(NextPlayer, SimRoom)
  \/ OtherJoinCount(NextPlayer, SimRoom)
  \/ OtherJoinUpdate(NextPlayer, SimRoom)
  \/ OtherLoadRoomPlayers(NextPlayer, SimRoom)
  \/ OtherMountCanvas(NextPlayer, SimRoom)
  \/ OtherEndGame(NextPlayer, SimRoom)

SpecRoom == InitRoom /\ [][NextRoom]_vars

\* SpecStart: the room the local client has created, in which it and the
\* further player have joined, from 'waiting' on.  Both toggle their ready
\* flags, the local client starts the game, and its notifications and reads
\* are answered at any time.  The client of the further player renders its
\* canvas and ends its game at any time (its mirror plays no part here).
StartRoomRow == [NewRoom(Me) EXCEPT !.current_players = 2]
StartRows == <<NewRoomPlayer(SimRoom, Me), NewRoomPlayer(SimRoom, Guest)>>

InitStart ==
  /\ ClientAtRest
  /\ game_rooms = [r \in Rooms |-> IF r = SimRoom THEN Some(StartRoomRow) ELSE NULL]
  /\ room_players = [r \in Rooms |-> IF r = SimRoom THEN StartRows ELSE <<>>]
  /\ currentRoomId = Some(SimRoom)
  /\ rooms = NoRooms
  /\ room = Some(StartRoomRow)
  /\ roomPlayers = StartRows
  /\ myRoomPlayer = MyRowIn(StartRows)
  /\ roomChannel = [subscribed |-> TRUE, room_updates |-> <<>>, players_changed |-> FALSE,
                    room_deleted |-> FALSE]
  /\ joinRoomCall = [pc |-> "done", roomId |-> SimRoom, count |-> 1]
  /\ others = OthersInRoom

NextStart ==
  \/ (Cardinality(pendingLoads) < MaxPendingLoads /\ RoomPlayersEvent)
  \/ \E data \in pendingLoads : LoadRoomPlayersAnswer(data)
  \/ RoomUpdateEvent
  \/ toggleReady
  \/ (Len(roomChannel.room_updates) <= MaxUndelivered /\ startGame)
  \/ OtherToggleReady(NextPlayer, SimRoom)
  \/ OtherMountCanvas(NextPlayer, SimRoom)
  \/ OtherEndGame(NextPlayer, SimRoom)

SpecStart == InitStart /\ [][NextStart]_vars

\* --------------------------------------------------------------- claims
\* what the claims speak about, read off the recorded endGame calls

\* the calls of endGame made by the canvas of mount s
CallsOf(s) == {i \in DOMAIN endGames : endGames[i].session = s}
Sessions == {endGames[i].session : i \in DOMAIN endGames}
FirstCallOf(s) == CHOOSE i \in CallsOf(s) : \A j \in CallsOf(s) : i <= j

\* the local score when the countdown of mount s reached zero
SessionScore(s) == endGames[FirstCallOf(s)].at_myScore

RECURSIVE SumSessionScores(_)
SumSessionScores(S) ==
  IF S = {} THEN 0
  ELSE LET s == CHOOSE t \in S : TRUE IN SessionScore(s) + SumSessionScores(S \ {s})

AllWritesAccepted ==
  \A i \in DOMAIN endGames : \A a \in DOMAIN endGames[i].attempts : endGames[i].attempts[a].ok

\* the ops a call has attempted, in order
OpsOf(call) == [a \in DOMAIN call.attempts |-> call.attempts[a].op]
WriteOrder == <<"insert", "update", "status">>
Attempted(pc) ==
  CASE pc = "insert" -> 0
    [] pc = "update" -> 1
    [] pc = "status" -> 2
    [] pc = "done" -> 3

\* the rank the rule gives: 1 + the participants scoring strictly higher + the
\* ones scoring the same that stand earlier in the list
RankByRule(list, score) ==
  LET me == CHOOSE i \in DOMAIN list : list[i].player_id = Me
  IN  1 + Cardinality({j \in DOMAIN list : j /= me /\ list[j].score > score})
        + Cardinality({j \in 1..(me - 1) : list[j].score = score})

\* C1: within one session (one mount of the canvas) endGame is invoked at most
\* once, and so at most one game_scores row is inserted for it.
C1_EndGameOncePerSession ==
  /\ \A i, j \in DOMAIN endGames : endGames[i].session = endGames[j].session => i = j
  /\ \A k, l \in DOMAIN game_scores :
       endGames[game_scores[k].call].session = endGames[game_scores[l].call].session => k = l

\* C2: the score of every game_scores row is the value myScore had when the
\* endGame call that inserted it was made.
C2_WrittenScoreIsMyScore ==
  \A k \in DOMAIN game_scores :
    game_scores[k].score = endGames[game_scores[k].call].at_myScore

\* C3: once k sessions have been finalized (every call answered, every write
\* accepted), the stored games_played is the initial value plus k and the
\* stored total_score is the initial value plus the sum of the sessions' scores.
C3_StatsAccumulate ==
  (endGames /= <<>> /\ EndGamesDone /\ AllWritesAccepted) =>
     /\ players.games_played = NewPlayerRow.games_played + Cardinality(Sessions)
     /\ players.total_score = NewPlayerRow.total_score + SumSessionScores(Sessions)

\* C4: no step decreases the stored total_score, games_played or wins.
C4_StatsNeverDecrease ==
  [][/\ players'.total_score >= players.total_score
     /\ players'.games_played >= players.games_played
     /\ players'.wins >= players.wins]_vars

\* C5: the rank an endGame call computes is 1 + the participants scoring
\* strictly higher + the equal-scoring ones earlier in the list, with myScore
\* and the participant mirror as they are when the call is made.
C5_RankFromCurrentScores ==
  \A i \in DOMAIN endGames :
    HasRow(endGames[i].at_roomPlayers, Me) =>
      endGames[i].rank = RankByRule(endGames[i].at_roomPlayers, endGames[i].at_myScore)

\* C6: when the players update of a session's finalization (the one endGame
\* call made for it) is accepted, the stored wins goes up by one if the call's
\* rank is 1 and stays as it was otherwise.
C6_WinsUpByOneIffFirst ==
  [][\A i \in DOMAIN endGames :
       (/\ CallsOf(endGames[i].session) = {i}
        /\ endGames[i].pc = "update" /\ endGames'[i].pc /= "update"
        /\ endGames'[i].attempts[Len(endGames'[i].attempts)].ok)
       => players'.wins = players.wins + (IF endGames[i].rank = 1 THEN 1 ELSE 0)]_vars

\* C7: every endGame call attempts insert, update, status in this order, each
\* once, whatever the outcome of the earlier ones; a call that has ended has
\* attempted all three; an accepted insert leaves exactly one row, a refused
\* one none (nothing is retried, nothing is taken back).
C7_ThreeWritesInOrder ==
  \A i \in DOMAIN endGames :
    /\ OpsOf(endGames[i]) = SubSeq(WriteOrder, 1, Attempted(endGames[i].pc))
    /\ Cardinality({k \in DOMAIN game_scores : game_scores[k].call = i})
         = (IF Attempted(endGames[i].pc) >= 1 /\ endGames[i].attempts[1].ok THEN 1 ELSE 0)

\* a call went on to the update and the status write after its insert was refused
C7_Witness ==
  \E i \in DOMAIN endGames :
    /\ endGames[i].pc = "done"
    /\ ~endGames[i].attempts[1].ok
    /\ endGames[i].attempts[2].ok /\ endGames[i].attempts[3].ok
    /\ players.games_played > 0

\* C8: when a client that has joined a room leaves it, its room_players row is
\* gone from the store and the room's channel is unsubscribed.
C8_LeaveDeletesRow ==
  [][(currentRoomId /= NULL /\ currentRoomId' = NULL /\ myRoomPlayer /= NULL)
       => (/\ MyRowIn(room_players'[The(currentRoomId)]) = NULL
           /\ ~roomChannel'.subscribed)]_vars

\* C9: while the canvas is not mounted no timer and no frame is registered,
\* and no step changes the countdown, the position, the score or the
\* collectibles.
C9_NothingAfterTeardown ==
  [][/\ ~mounted' => (~timer' /\ ~animationFrameId')
     /\ (~mounted /\ ~mounted') => UNCHANGED <<gameTime, myPosition, myScore, collectibles>>]_vars

\* the canvas has been torn down in mid-game (the countdown had not run out,
\* a game-loop run had happened) and steps are still being taken
C9_Witness == ~mounted /\ session > 0 /\ frames > 0 /\ endGames = <<>> /\ currentRoomId = NULL

\* C10: the local position always satisfies 20 <= x <= 780 and 20 <= y <= 580.
C10_PositionInArena ==
  /\ MinXY <= myPosition.x /\ myPosition.x <= MaxX
  /\ MinXY <= myPosition.y /\ myPosition.y <= MaxY

\* a tick ran with the player on the right and upper walls and the keys
\* towards both of them held, and left the position on the walls
C10_Witness ==
  /\ lastTick /= NULL
  /\ The(lastTick).from = [x |-> MaxX, y |-> MinXY]
  /\ keysPressed = {"d", "w"}
  /\ myPosition = [x |-> MaxX, y |-> MinXY]

\* the items a step marks collected, and the sum of the values of a set of items
NewlyCollected == {i \in DOMAIN collectibles : ~collectibles[i].collected
                                               /\ collectibles'[i].collected}
CollectedItems == {i \in DOMAIN collectibles : collectibles[i].collected}

\* C11: a step that changes the local score sets it to the score its tick
\* started from plus the values of the items that the step itself marks
\* collected: an item that was collected before adds nothing again.
C11_ValueAddedOnce ==
  [][myScore' /= myScore =>
       myScore' = loopClosure'.myScore + SumValues(collectibles, NewlyCollected)]_vars

\* the gem has been scored, and a later tick has run within collision
\* distance of it (and of the coin collected at mounting) and has added nothing
C11_Witness ==
  /\ lastTick /= NULL
  /\ myScore = GemValue
  /\ collectibles[2].collected /\ collectibles[2].value = GemValue
  /\ InRange(collectibles[2], The(lastTick).to.x, The(lastTick).to.y)
  /\ InRange(collectibles[1], The(lastTick).to.x, The(lastTick).to.y)
  /\ The(lastTick).gained = 0

C13_FieldFixed ==
  [][(mounted /\ mounted' /\ session' = session) =>
       /\ Len(collectibles) = NumCollectibles
       /\ Len(collectibles') = NumCollectibles
       /\ \A i \in 1..NumCollectibles :
            /\ collectibles'[i].x = collectibles[i].x
            /\ collectibles'[i].y = collectibles[i].y
            /\ collectibles'[i].type = collectibles[i].type
            /\ collectibles'[i].value = collectibles[i].value
            /\ collectibles[i].collected => collectibles'[i].collected]_vars

\* a tick has taken the player out of collision distance of the coin that
\* was collected at mounting, and the coin is still collected
C13_Witness ==
  /\ lastTick /= NULL
  /\ The(lastTick).from = StartPosition
  /\ myPosition = The(lastTick).to
  /\ collectibles[1].collected
  /\ InRange(collectibles[1], StartX, StartY)
  /\ ~InRange(collectibles[1], myPosition.x, myPosition.y)

\* a step in which updateGame runs past its gate, and the position it
\* computes (from the closure of the effect that runs it)
TickRuns == frames' /= frames /\ ~(now - lastUpdateTime < TickGate)
TickPosition == The(lastTick').to
SquaredDistance(item, pos) ==
  (item.x - pos.x) * (item.x - pos.x) + (item.y - pos.y) * (item.y - pos.y)

\* C14: in a tick, an item that is not yet collected becomes collected if and
\* only if its distance to the tick's clamped position is strictly below
\* 35 = 20 + 15 (compared on the squares).
C14_CollectedIffWithin35 ==
  [][TickRuns =>
       \A i \in DOMAIN collectibles :
         ~collectibles[i].collected =>
            (collectibles'[i].collected <=>
               SquaredDistance(collectibles[i], TickPosition) < 35 * 35)]_vars

\* a tick has run at (405, 300) with an uncollected item exactly 35 away,
\* which is still uncollected
C14_Witness ==
  /\ lastTick /= NULL
  /\ The(lastTick).to = [x |-> StartX + speed, y |-> StartY]
  /\ myPosition = The(lastTick).to
  /\ SquaredDistance(collectibles[1], myPosition) = 35 * 35
  /\ ~collectibles[1].collected

\* C15: the countdown after n runs of the interval callback is max(0, 60 - n),
\* whatever the number of game-loop runs: it starts at 60, goes down by one
\* per timer tick while above 0, and never goes below 0 or up.
C15_CountdownIsSixtyMinusTicks ==
  /\ mounted => gameTime = Max2(0, 60 - timerTicks)
  /\ gameTime >= 0 /\ gameTime <= 60

\* the countdown has stayed at 0 through a further timer tick, with game-loop
\* runs having happened besides the mounting one
C15_Witness == mounted /\ timerTicks > 60 /\ gameTime = 0 /\ frames > 0

\* C16: a tick that calls onPositionUpdate runs more than 50 ms after the
\* push before it (lastUpdateTime is the time of that push, 0 before the
\* first one).
C16_PushesOver50Apart ==
  (lastTick /= NULL /\ The(lastTick).pushed) => The(lastTick).since > 50

\* with a key held, a tick 60 ms after a push has moved the player and pushed
C16_Witness ==
  /\ lastTick /= NULL
  /\ keysPressed /= {}
  /\ The(lastTick).to /= The(lastTick).from
  /\ The(lastTick).pushed
  /\ The(lastTick).since = MaxElapsed
  /\ lastUpdateTime = now

\* C17: two consecutive runs of updateGame that pass the gate (and so move the
\* player or run checkCollisions) are at least 16 ms apart.  lastTick is the
\* run before this one when the clock has not advanced since.
C17_TicksSixteenApart ==
  [][(lastTick /= NULL /\ TickRuns) => The(lastTick').at - The(lastTick).at >= TickGate]_vars

\* C18: a run of updateGame in which a collectible is collected has called
\* onScoreUpdate (and setMyScore) with the new score.
C18_ScoringTickPushes ==
  lastTick /= NULL => (The(lastTick).gained > 0 => The(lastTick).scored)

\* the local player's row in the mirror
MirroredMe == The(MyRowIn(roomPlayers))
MirroredPosition == [x |-> MirroredMe.position_x, y |-> MirroredMe.position_y]

\* C19: a step that changes the participant mirror leaves myPosition, myScore
\* and the collectibles as they are; a run of updateGame checks collisions at
\* the position it gets from its own render's myPosition and the keys; and
\* renderGame draws the local participant at its render's myPosition.
C19_LocalStateIsLocal ==
  /\ [][/\ roomPlayers' /= roomPlayers =>
             (myPosition' = myPosition /\ myScore' = myScore /\ collectibles' = collectibles)
        /\ TickRuns => TickPosition = NewPosition(loopClosure'.myPosition, keysPressed)]_vars
  /\ [](mounted => \A i \in DOMAIN loopClosure.roomPlayers :
                     loopClosure.roomPlayers[i].player_id = Me
                       => renderGame(loopClosure)[i] = loopClosure.myPosition)

\* the echo of the push of (405, 300) was applied when the player had moved on
\* to (410, 300); the game-loop effect ran again with that mirror and its
\* run of updateGame went on from (410, 300)
C19_Witness ==
  /\ mounted
  /\ MyRowIn(roomPlayers) /= NULL
  /\ MirroredPosition = [x |-> StartX + speed, y |-> StartY]
  /\ loopClosure.roomPlayers = roomPlayers
  /\ lastTick /= NULL
  /\ The(lastTick).from = [x |-> StartX + 2 * speed, y |-> StartY]
  /\ The(lastTick).to = [x |-> StartX + 3 * speed, y |-> StartY]
  /\ myPosition = The(lastTick).to

\* C20: the step that applies the answer data of a read leaves the mirror
\* equal to data, whatever the mirror was and whatever is still to arrive.
C20_MirrorIsSnapshot ==
  [][\A data \in pendingLoads :
       pendingLoads' = pendingLoads \ {data} => roomPlayers' = data]_vars

\* the answer of an earlier read arrived after that of a later one: nothing
\* is under way and the mirror is the earlier snapshot, not the store's rows
C20_Witness ==
  /\ pendingLoads = {}
  /\ ~roomChannel.players_changed
  /\ roomPlayers /= room_players[SimRoom]
  /\ \E i \in DOMAIN roomPlayers :
       roomPlayers[i].score /= room_players[SimRoom][i].score

\* C21: while a canvas is mounted the local score does not decrease from one
\* state to the next.
C21_ScoreNeverDecreases ==
  [][(mounted /\ mounted' /\ session' = session) => myScore' >= myScore]_vars

\* the directions held, and the step of a run of updateGame on each axis
HeldLeft == keysPressed \cap {"arrowleft", "a"} /= {}
HeldRight == keysPressed \cap {"arrowright", "d"} /= {}
HeldUp == keysPressed \cap {"arrowup", "w"} /= {}
HeldDown == keysPressed \cap {"arrowdown", "s"} /= {}
HeldDirections ==
  Cardinality({n \in {"l", "r", "u", "d"} :
                 \/ n = "l" /\ HeldLeft
                 \/ n = "r" /\ HeldRight
                 \/ n = "u" /\ HeldUp
                 \/ n = "d" /\ HeldDown})
StepX == The(lastTick).to.x - The(lastTick).from.x
StepY == The(lastTick).to.y - The(lastTick).from.y

\* the run started far enough from the walls for no clamp to apply
Unclamped ==
  /\ The(lastTick).from.x - speed >= MinXY /\ The(lastTick).from.x + speed <= MaxX
  /\ The(lastTick).from.y - speed >= MinXY /\ The(lastTick).from.y + speed <= MaxY

\* C22: a run of updateGame with one horizontal and one vertical direction
\* held, away from the walls, moves 5 on both axes (squared displacement 50);
\* with a single direction held it moves 5 on that axis and 0 on the other.
C22_DiagonalMovesBothAxes ==
  (lastTick /= NULL /\ Unclamped) =>
    /\ ((HeldLeft /= HeldRight) /\ (HeldUp /= HeldDown)) =>
         /\ StepX \in {-speed, speed}
         /\ StepY \in {-speed, speed}
         /\ StepX * StepX + StepY * StepY = 50
    /\ (HeldDirections = 1 /\ (HeldLeft \/ HeldRight)) =>
         (StepX \in {-speed, speed} /\ StepY = 0)
    /\ (HeldDirections = 1 /\ (HeldUp \/ HeldDown)) =>
         (StepY \in {-speed, speed} /\ StepX = 0)

\* d and w held: from (400, 300) to (405, 295)
C22_Witness ==
  /\ lastTick /= NULL
  /\ keysPressed = {"d", "w"}
  /\ The(lastTick).from = StartPosition
  /\ The(lastTick).to = [x |-> StartX + speed, y |-> StartY - speed]
  /\ myPosition = The(lastTick).to

\* C23: both keys of a direction held move 5 in that direction, not 10, and
\* two opposite directions held cancel on their axis.
C23_StepPerDirection ==
  (lastTick /= NULL /\ Unclamped) =>
    /\ StepX = (IF HeldRight THEN speed ELSE 0) - (IF HeldLeft THEN speed ELSE 0)
    /\ StepY = (IF HeldDown THEN speed ELSE 0) - (IF HeldUp THEN speed ELSE 0)
    /\ (HeldLeft /\ HeldRight) => StepX = 0
    /\ (HeldUp /\ HeldDown) => StepY = 0

\* w and ArrowUp held together with a and d: 5 up, 0 sideways
C23_Witness ==
  /\ lastTick /= NULL
  /\ keysPressed = {"w", "arrowup", "a", "d"}
  /\ The(lastTick).from = StartPosition
  /\ The(lastTick).to = [x |-> StartX, y |-> StartY - speed]
  /\ myPosition = The(lastTick).to

\* the names the held-key set can hold
KeyNames == {toLowerCase(k) : k \in MappedKeys}

\* C24: in every state of a mounted canvas, a press of a mapped key gives a
\* set that holds the key's name and is otherwise as before, and a release of
\* any key gives a set without its name and otherwise as before; the set
\* holds names of mapped keys only; a step that changes the set is a key
\* event (no run of the game loop, no re-run of its effect, no change of the
\* mirror); and a run of updateGame with a direction held and its opposite
\* not held moves in that direction.
C24_HeldKeysPersist ==
  /\ [](mounted =>
          /\ keysPressed \subseteq KeyNames
          /\ \A k \in MappedKeys :
               /\ toLowerCase(k) \in KeysAfterDown(keysPressed, k)
               /\ KeysAfterDown(keysPressed, k) \ {toLowerCase(k)}
                    = keysPressed \ {toLowerCase(k)}
          /\ \A k \in AllKeys :
               /\ toLowerCase(k) \notin KeysAfterUp(keysPressed, k)
               /\ KeysAfterUp(keysPressed, k) \cup {toLowerCase(k)}
                    = keysPressed \cup {toLowerCase(k)})
  /\ [][(mounted /\ mounted' /\ keysPressed' /= keysPressed) =>
          /\ frames' = frames /\ loopClosure' = loopClosure /\ roomPlayers' = roomPlayers
          /\ \E k \in AllKeys : \/ keysPressed' = KeysAfterDown(keysPressed, k)
                                \/ keysPressed' = KeysAfterUp(keysPressed, k)]_vars
  /\ []((lastTick /= NULL /\ Unclamped) =>
          /\ (HeldRight /\ ~HeldLeft) => StepX = speed
          /\ (HeldLeft /\ ~HeldRight) => StepX = -speed
          /\ (HeldDown /\ ~HeldUp) => StepY = speed
          /\ (HeldUp /\ ~HeldDown) => StepY = -speed)

\* ArrowUp, pressed before a run of the game loop, is still held after it
\* and has moved the player up
C24_Witness ==
  /\ mounted
  /\ frames > 0
  /\ keysPressed = {"arrowup"}
  /\ lastTick /= NULL
  /\ loopClosure.myPosition = StartPosition
  /\ The(lastTick).to = [x |-> StartX, y |-> StartY - speed]
  /\ myPosition = The(lastTick).to

\* C25: once the record of the room a client is in is gone and nothing the
\* client has asked for or been notified of is still under way, the client is
\* back in the Lobby.
C25_DeletedRoomReturnsToLobby ==
  ~(/\ currentRoomId /= NULL
    /\ game_rooms[The(currentRoomId)] = NULL
    /\ Quiet)

\* the countdown of a canvas playing room r has reached zero: endGame was called
CountdownOverIn(r) == \E i \in DOMAIN endGames : endGames[i].roomId = r
Finished(r) == game_rooms[r] /= NULL /\ The(game_rooms[r]).status = "finished"

\* C26: once the canvas of a client playing room r has been mounted for 60
\* timer ticks, the status of r becomes 'finished', unless the store refuses a
\* write.
C26_RoomEventuallyFinished ==
  \A r \in Rooms : CountdownOverIn(r) ~> (Finished(r) \/ ~AllWritesAccepted)

\* a room set to 'finished' by an endGame call all of whose writes succeeded
C26_Witness ==
  \E i \in DOMAIN endGames :
    /\ endGames[i].pc = "done"
    /\ Len(endGames[i].attempts) = 3
    /\ AllWritesAccepted
    /\ Finished(endGames[i].roomId)

\* the number of entries of the pool that give kind k; Math.floor(Math.random()
\* * types.length) picks each entry with the same probability
PoolCount(k) == Cardinality({i \in DOMAIN types : types[i] = k})

\* C27: the pool holds three times as many coins as gems and three times as
\* many coins as stars, and every item of the field has the value of its kind
\* (coin 10, gem 25, star 50).
C27_PoolWeights ==
  /\ PoolCount("coin") = 3 * PoolCount("gem")
  /\ PoolCount("coin") = 3 * PoolCount("star")
  /\ \A i \in DOMAIN collectibles :
       collectibles[i].value = (CASE collectibles[i].type = "coin" -> 10
                                  [] collectibles[i].type = "gem" -> 25
                                  [] collectibles[i].type = "star" -> 50)

\* the rows of no room hold two rows of one player
OneRowPerPlayer ==
  \A r \in Rooms : \A i, j \in DOMAIN room_players[r] :
    room_players[r][i].player_id = room_players[r][j].player_id => i = j

\* C28: a room never holds two rows of one player, whichever way the joinRoom
\* calls of the clients interleave; and a joinRoom call whose select finds the
\* player's row ends there, takes that row as myRoomPlayer and inserts nothing.
C28_OneRowPerRoomAndPlayer ==
  /\ []OneRowPerPlayer
  /\ [][/\ (/\ joinRoomCall.pc = "select" /\ joinRoomCall'.pc /= "select"
            /\ MyRowIn(room_players[joinRoomCall.roomId]) /= NULL) =>
              /\ joinRoomCall'.pc = "done"
              /\ room_players' = room_players
              /\ JoinAlive => myRoomPlayer' = MyRowIn(room_players[joinRoomCall.roomId])
        /\ \A c \in Others :
             (/\ others[c].pc = "select" /\ others'[c].pc /= "select"
              /\ \E i \in DOMAIN room_players[SimRoom] :
                   room_players[SimRoom][i].player_id = PlayerOf(c)) =>
               (others'[c].pc = "done" /\ room_players' = room_players)]_vars

\* both clients of the local player are in the room with the one row of that
\* player, which the local client found there (its call inserted and counted
\* nothing)
C28_Witness ==
  /\ currentRoomId = Some(SimRoom)
  /\ joinRoomCall.pc = "done" /\ joinRoomCall.roomId = SimRoom /\ joinRoomCall.count = 0
  /\ others["c2"].pc = "done"
  /\ myRoomPlayer /= NULL
  /\ myRoomPlayer = MyRowIn(room_players[SimRoom])
  /\ Cardinality({i \in DOMAIN room_players[SimRoom] :
                    room_players[SimRoom][i].player_id = Me}) = 1

\* C29: a room that exists never holds more room_players rows than its
\* max_players.
C29_RowsWithinMaxPlayers ==
  \A r \in Rooms :
    game_rooms[r] /= NULL => Len(room_players[r]) <= The(game_rooms[r]).max_players

\* C30: when no joinRoom call of any client is under way, current_players of
\* every room that exists is the number of its room_players rows.
C30_CountMatchesRows ==
  (JoinRoomIdle /\ \A c \in Others : others[c].pc \in {"lobby", "done"}) =>
    \A r \in Rooms :
      game_rooms[r] /= NULL => The(game_rooms[r]).current_players = Len(room_players[r])

\* the position the store holds for the local player in the room it is in
StoredPosition ==
  LET row == The(MyRowIn(room_players[The(currentRoomId)]))
  IN  [x |-> row.position_x, y |-> row.position_y]

\* C31: while no key is held (no run of updateGame moves the player or pushes
\* anything then, whichever render it comes from), the position the store
\* holds for the local player is the local position.
C31_StoppedPositionIsStored ==
  (/\ mounted /\ keysPressed = {}
   /\ myRoomPlayer /= NULL
   /\ MyRowIn(room_players[The(currentRoomId)]) /= NULL) =>
     StoredPosition = myPosition

\* C32: the score records that two different participants insert for one
\* room (one session: a room is played once) carry different ranks; so at
\* most one participant of the room is recorded with rank 1.
C32_RanksDistinct ==
  \A k, l \in DOMAIN game_scores :
    (/\ game_scores[k].room_id = game_scores[l].room_id
     /\ game_scores[k].player_id /= game_scores[l].player_id) =>
       game_scores[k].rank /= game_scores[l].rank

\* C33: the rank of every score record that an endGame call of the local
\* client has inserted is at least 1 and at most the number of participants
\* of its room.
C33_RankInRange ==
  \A k \in DOMAIN game_scores :
    game_scores[k].player_id = Me =>
      /\ game_scores[k].rank >= 1
      /\ game_scores[k].rank <= Len(room_players[game_scores[k].room_id])

\* the local client has inserted a score record for room r
RecordedIn(r) ==
  \E k \in DOMAIN game_scores : game_scores[k].player_id = Me /\ game_scores[k].room_id = r

\* C34: once the local client, in the room with its canvas rendered at some
\* time, sees the room 'finished' with nothing of it under way any more (no
\* request, no notification, no endGame call), it has inserted its score
\* record.
C34_EveryClientRecords ==
  (/\ currentRoomId /= NULL /\ myRoomPlayer /= NULL
   /\ session > 0
   /\ room /= NULL /\ The(room).status = "finished"
   /\ Quiet /\ EndGamesDone) =>
     RecordedIn(The(currentRoomId))

\* C35: while the countdown of a mounted canvas stands at 0, no step changes
\* the local score, the local position or the collectibles.
C35_FrozenAfterZero ==
  [][(/\ mounted /\ mounted' /\ session' = session
      /\ gameTime = 0 /\ gameTime' = 0) =>
        UNCHANGED <<myScore, myPosition, collectibles>>]_vars

\* a step that sets the stored status of room r to 'playing'
SetToPlaying(r) ==
  /\ game_rooms[r] /= NULL /\ game_rooms'[r] /= NULL
  /\ The(game_rooms[r]).status /= "playing"
  /\ The(game_rooms'[r]).status = "playing"

\* C36: a step that sets the stored status of a room to 'playing' is taken
\* for a room whose host is the player of the client that writes (the local
\* client is the only one that starts games here), and the store holds at
\* that moment at least 2 participants of the room, each of them ready or the
\* host.
C36_StartOnlyWhenAllReady ==
  [][\A r \in Rooms : SetToPlaying(r) =>
       /\ The(game_rooms[r]).host_player_id = Me
       /\ Len(room_players[r]) >= 2
       /\ \A i \in DOMAIN room_players[r] :
            \/ room_players[r][i].is_ready
            \/ room_players[r][i].player_id = The(game_rooms[r]).host_player_id]_vars

\* how far a status is on the way waiting, playing, finished
StatusOrder(st) ==
  CASE st = "waiting" -> 0
    [] st = "playing" -> 1
    [] st = "finished" -> 2

\* C37: no step takes the stored status of a room back: not from 'playing'
\* to 'waiting', not from 'finished' to 'playing' or 'waiting'.
C37_StatusOnlyForward ==
  [][\A r \in Rooms :
       (game_rooms[r] /= NULL /\ game_rooms'[r] /= NULL) =>
         StatusOrder(The(game_rooms'[r]).status) >= StatusOrder(The(game_rooms[r]).status)]_vars

\* C38: when the local client is in a room with its row, no read of
\* loadRoomPlayers() is awaiting its answer and no room_players notification
\* is waiting (toggleReady completes within its step), isReady is the
\* is_ready of the stored row.
C38_ReadyFlagIsStored ==
  (/\ currentRoomId /= NULL /\ myRoomPlayer /= NULL
   /\ MyRowIn(room_players[The(currentRoomId)]) /= NULL
   /\ pendingLoads = {} /\ ~roomChannel.players_changed) =>
     isReady = The(MyRowIn(room_players[The(currentRoomId)])).is_ready

====
